---- MODULE Spec2Model ----
(***************************************************************************)
(* A model of rembg-ts: the model session (sessions/base.ts and            *)
(* sessions/u2net.ts), the batch orchestrator remove and the video         *)
(* pipeline remove_video (bg.ts) with its frame source/sink                *)
(* (libraries/video.ts).                                                   *)
(***************************************************************************)
EXTENDS Integers, Sequences, FiniteSets, TLC

\* Number of concurrent callers that share one session.
NCallers == 2
\* Largest number of items in one remove call.
MaxBatch == 2
\* Largest number of frames in a source video.
MaxFrames == 2
\* Largest number of values in a model output.
MaxPred == 2
\* Largest number of elements of an array that is cast.
MaxCast == 2
\* Largest number of pieces a serialized graph is made of.
MaxChunks == 4
\* Largest alpha_matting_erode_size.
MaxErode == 3
\* Largest number of frames a previous remove_video call left in the ffmpeg
\* file system.
MaxPrev == 1
MaxWrites == 3
MaxWriteLen == 2

Callers == 1..NCallers

VARIABLES
    \* ---- BaseSession (one shared session object) ----
    initialized,      \* this.initialized
    inner_session,    \* this.inner_session: 0 is null, g > 0 is the g-th graph built
    cache,            \* the IndexedDB entry stored under the model path
    graphs,           \* number of graphs InferenceSession.create has returned
    callKind,         \* per caller: the session method it called
    callPc,           \* per caller: where its call is suspended
    fetchCalls,       \* per caller: fetch() requests its call has issued
    createCalls,      \* per caller: InferenceSession.create() calls its call has issued
    settled,          \* per caller: how the fetch / create it awaited last settled
    \* ---- remove(data, options): arguments ----
    mode,             \* entry point in progress: "idle", "remove" or "video"
    data,             \* inputArray: the items, each [kind, id, size, alpha]
    isBatch,          \* Array.isArray(data)
    alpha_matting,
    only_mask,
    post_process_mask,
    force_return_bytes,
    mattingArgs,      \* the foreground threshold, background threshold and erode size passed
    \* ---- remove: locals ----
    session,          \* "unset", "uninit" (passed, not Ready) or "ready"
    rpc,              \* where remove is
    ri,               \* index of the running loop (1-based)
    images,
    returnTypes,
    preprocessedInputs,   \* predict_batch phase 1
    allPredictions,       \* predict_batch phase 2
    pbResults,            \* predict_batch phase 3 (its results)
    allMasks,
    allImageMaskPairs,
    preprocessedPairs,
    alphaResults,
    finalCutouts,
    allCutouts,
    results,
    retval,           \* what remove resolved with: [isList, items]
    error,            \* what remove rejected with ("none" while it has not)
    \* ---- remove_video and its VideoFrameProcessor ----
    vpc,              \* where remove_video is
    videoFrames,      \* number of frames of the input video
    fsFrames,         \* ffmpeg file system: the frame_%04d.png files
    fsOut,            \* ffmpeg file system: the outframe_%04d.png files
    extractedFrameNames,
    frameIndex,
    pushedFrameCount,
    isReady,
    allFrames,
    processedFrames,
    vi,               \* index of the push loop (1-based)
    exported,         \* the frames encoded into the exported video
    onProgress,       \* whether a progress callback was passed
    progressCalls,    \* the <<current, total>> arguments of its calls so far
    \* ---- the trimap of one image-mask pair ----
    tpc,              \* where the trimap construction is
    maskShape,        \* <<height, width>> of the mask
    maskGray,         \* the gray value of each pixel of the mask
    alpha_matting_foreground_threshold,
    alpha_matting_background_threshold,
    alpha_matting_erode_size,
    mask_array,
    is_foreground,
    is_background,
    is_foreground_eroded,
    is_background_eroded,
    trimap,
    \* ---- the numbers of one mask and one composited element ----
    npc,              \* where the computation is
    pred,             \* the first channel of the model output
    maskData,         \* the uint8 data processU2NetOutput returns
    maskPixels,       \* the gray values of the mask picture
    alphaValue,       \* one element of the alpha matte of the estimator
    cutoutValue,      \* the element of the stacked cutout array it becomes
    cutoutPixel,      \* the alpha value of the cutout picture
    \* ---- one post_process of a mask ----
    ppc,              \* where the computation is
    ppShape,          \* <<height, width>> of the mask picture
    ppGray,           \* its gray values, row by row
    ppMask,           \* np.array(mask)
    processed_mask,   \* post_process's variable, then its result
    processed_again,  \* post_process of that result
    \* ---- one astype of an array ----
    cpc,              \* where the cast is
    castShape,        \* this.shape
    castData,         \* this.data
    castDtype,        \* the dtype asked for
    castResult,       \* the array astype returns: [shape, data]
    \* ---- the graph patch of one initialize() ----
    xpc,              \* where initialize() is
    executionProviders,   \* this.sess_opts.executionProviders
    fetchedBuffer,    \* the bytes of the buffer that was loaded
    modelArrayBuffer, \* the bytes of the buffer initialize() goes on with
    \* ---- one BytesIO ----
    iopc,             \* where the use of the BytesIO is
    bio,              \* the BytesIO: [view, position]
    writes,           \* the write and writeBlob calls made: [via, bytes]
    gotValue,         \* what getvalue() returned
    readBytes         \* what read() returned after seek(0)

sessVars == <<initialized, inner_session, cache, graphs,
              callKind, callPc, fetchCalls, createCalls, settled>>

argVars == <<mode, isBatch, alpha_matting, only_mask, post_process_mask,
             force_return_bytes, mattingArgs>>
p1Vars == <<images, returnTypes>>
pbVars == <<preprocessedInputs, allPredictions, pbResults, allMasks>>
amVars == <<allImageMaskPairs, preprocessedPairs, alphaResults, finalCutouts>>
removeVars == <<argVars, data, session, rpc, ri, p1Vars, pbVars, amVars,
                allCutouts, results, retval, error>>

procVars == <<extractedFrameNames, frameIndex, pushedFrameCount, isReady>>
progressVars == <<onProgress, progressCalls>>
videoVars == <<vpc, videoFrames, fsFrames, fsOut, procVars, allFrames, processedFrames,
               vi, exported, progressVars>>

trimapVars == <<tpc, maskShape, maskGray, alpha_matting_foreground_threshold,
                alpha_matting_background_threshold, alpha_matting_erode_size, mask_array,
                is_foreground, is_background, is_foreground_eroded, is_background_eroded,
                trimap>>

\* The state of the array computations, which remove and the session leave
\* alone.
numVars == <<npc, pred, maskData, maskPixels, alphaValue, cutoutValue, cutoutPixel>>

postVars == <<ppc, ppShape, ppGray, ppMask, processed_mask, processed_again>>

castVars == <<cpc, castShape, castData, castDtype, castResult>>

\* The library functions that are computed on their own.
patchVars == <<xpc, executionProviders, fetchedBuffer, modelArrayBuffer>>

ioVars == <<iopc, bio, writes, gotValue, readBytes>>

libVars == <<castVars, patchVars, ioVars>>

fnVars == <<trimapVars, numVars, postVars, libVars>>

vars == <<sessVars, removeVars, videoVars, fnVars>>

(***************************************************************************)
(* BaseSession.initialize / ensureInitialized and the methods that await   *)
(* them.  A call is split at its await points.                             *)
(***************************************************************************)

CallKinds == {"initialize", "predict", "predict_batch", "remove"}

\* The suspension points of initialize(): getCachedModel, fetch, the reader
\* loop, cacheModel and InferenceSession.create.
LoadingPcs == {"lookup", "fetch", "read", "store", "build"}

\* initialize() line 54: a Ready session returns at once.
InitializeIsNoop == initialized

\* What a method does once its (ensured) initialization is over: initialize()
\* resolves; predict / predict_batch (and remove, which awaits predict_batch)
\* check inner_session and go on to the forward pass.
AfterInitialized(k, sess) ==
    IF k = "initialize" THEN "resolved"
    ELSE IF sess = 0 THEN "rejected" ELSE "run"

\* A caller invokes a method of the session.  initialize() itself, and
\* ensureInitialized() inside predict / predict_batch, start a load unless the
\* initialized flag is set.
CallStart(c, k) ==
    /\ callPc[c] = "idle"
    /\ callKind' = [callKind EXCEPT ![c] = k]
    /\ IF InitializeIsNoop
         THEN callPc' = [callPc EXCEPT ![c] = AfterInitialized(k, inner_session)]
         ELSE callPc' = [callPc EXCEPT ![c] = "lookup"]
    /\ UNCHANGED <<initialized, inner_session, cache, graphs, fetchCalls, createCalls,
                   settled>>

\* The catch block of initialize(): log and rethrow.  Nothing up the stack
\* (ensureInitialized, predict_batch outside its try, remove) handles it, so
\* the caller's promise rejects.
InitializeThrows(c) ==
    /\ callPc' = [callPc EXCEPT ![c] = "rejected"]
    /\ UNCHANGED <<initialized, inner_session, cache, graphs, callKind,
                   fetchCalls, createCalls>>

\* Issue InferenceSession.create (after the optional WebGPU patch, which
\* never throws).
StartBuild(c) ==
    /\ callPc' = [callPc EXCEPT ![c] = "build"]
    /\ createCalls' = [createCalls EXCEPT ![c] = @ + 1]

\* Issue fetch(modelPath).
StartFetch(c) ==
    /\ callPc' = [callPc EXCEPT ![c] = "fetch"]
    /\ fetchCalls' = [fetchCalls EXCEPT ![c] = @ + 1]

\* How an IndexedDB access of getCachedModel / cacheModel ends: its request
\* succeeds, or fires onerror, or indexedDB.open throws inside the promise
\* executor.  The executor's exception rejects the promise that the method
\* returns without awaiting it, so the try / catch around it does not see it.
DbOutcomes == {"db_ok", "db_error", "db_throws"}

\* getCachedModel lines 343-355: the entry is used when it has data and a
\* timestamp less than thirty days old.
CacheHit(entry) == entry = "fresh"

\* getCachedModel settles: with the bytes when a fresh entry is read, with
\* null when the entry is absent, malformed or expired or when a request
\* fires onerror; it rejects when indexedDB.open throws.
CacheLookupDone(c) ==
    /\ callPc[c] = "lookup"
    /\ \E o \in DbOutcomes :
         /\ settled' = [settled EXCEPT ![c] = o]
         /\ IF o = "db_throws"
              THEN InitializeThrows(c)
              ELSE /\ IF o = "db_ok" /\ CacheHit(cache)
                        THEN /\ StartBuild(c)
                             /\ UNCHANGED fetchCalls
                        ELSE /\ StartFetch(c)
                             /\ UNCHANGED createCalls
                   /\ UNCHANGED <<initialized, inner_session, cache, graphs, callKind>>

\* OnFetchResult without the response.ok test of line 80: a non-OK response
\* is read like an OK one.
OnFetchResultNoOkTest(c, r) ==
    IF r \in {"ok", "not_ok"}
      THEN /\ callPc' = [callPc EXCEPT ![c] = "read"]
           /\ UNCHANGED <<initialized, inner_session, cache, graphs, callKind,
                          fetchCalls, createCalls>>
      ELSE InitializeThrows(c)

\* What initialize() does when the fetch is over with outcome r: lines 80-90.
OnFetchResult(c, r) ==
    IF r = "ok"
      THEN /\ callPc' = [callPc EXCEPT ![c] = "read"]
           /\ UNCHANGED <<initialized, inner_session, cache, graphs, callKind,
                          fetchCalls, createCalls>>
      ELSE InitializeThrows(c)

\* fetch resolves with an OK response that has a body, or with a non-OK
\* response, or with no body, or it rejects.
FetchDone(c) ==
    /\ callPc[c] = "fetch"
    /\ \E r \in {"ok", "not_ok", "no_body", "network_error"} :
         /\ settled' = [settled EXCEPT ![c] = r]
         /\ OnFetchResult(c, r)

\* The reader loop runs to the end of the stream (then cacheModel is awaited)
\* or the stream fails.
ReadDone(c) ==
    /\ callPc[c] = "read"
    /\ UNCHANGED settled
    /\ \/ /\ callPc' = [callPc EXCEPT ![c] = "store"]
          /\ UNCHANGED <<initialized, inner_session, cache, graphs, callKind,
                         fetchCalls, createCalls>>
       \/ InitializeThrows(c)

\* cacheModel settles: it stored an entry with the timestamp of now, or a
\* request fired onerror and it resolves all the same, or indexedDB.open
\* threw and it rejects.
StoreDone(c) ==
    /\ callPc[c] = "store"
    /\ \E o \in DbOutcomes :
         /\ settled' = [settled EXCEPT ![c] = o]
         /\ IF o = "db_throws"
              THEN InitializeThrows(c)
              ELSE /\ cache' = IF o = "db_ok" THEN "fresh" ELSE cache
                   /\ StartBuild(c)
                   /\ UNCHANGED <<initialized, inner_session, graphs, callKind, fetchCalls>>

\* InferenceSession.create resolves with a new graph: lines 141-145.
OnBuildSuccess(c) ==
    /\ graphs' = graphs + 1
    /\ inner_session' = graphs + 1
    /\ initialized' = TRUE
    /\ callPc' = [callPc EXCEPT ![c] = AfterInitialized(callKind[c], graphs + 1)]
    /\ UNCHANGED <<cache, callKind, fetchCalls, createCalls>>

\* InferenceSession.create resolves with a graph or rejects.
BuildDone(c) ==
    /\ callPc[c] = "build"
    /\ \/ /\ settled' = [settled EXCEPT ![c] = "graph"]
          /\ OnBuildSuccess(c)
       \/ /\ settled' = [settled EXCEPT ![c] = "build_error"]
          /\ InitializeThrows(c)

\* The forward pass(es) of predict / predict_batch on the Ready session.
RunDone(c) ==
    /\ callPc[c] = "run"
    /\ \E ok \in BOOLEAN :
         callPc' = [callPc EXCEPT ![c] = IF ok THEN "resolved" ELSE "rejected"]
    /\ UNCHANGED <<initialized, inner_session, cache, graphs, callKind,
                   fetchCalls, createCalls, settled>>

\* Time passes: the cached entry becomes older than thirty days.
CacheExpires ==
    /\ cache = "fresh"
    /\ cache' = "expired"
    /\ UNCHANGED <<initialized, inner_session, graphs, callKind, callPc,
                   fetchCalls, createCalls, settled>>

(***************************************************************************)
(* remove (bg.ts, the pipeline version) and U2netSession.predict_batch.    *)
(* Pictures are records [what, src, size, pp, alpha]: src names the input  *)
(* the pixels come from, size stands for [width, height], pp says whether  *)
(* a mask went through post_process, alpha is <<>> for a picture's own     *)
(* alpha channel and <<m>> once m was written into it.                     *)
(***************************************************************************)

\* What a caller can pass as an item: a Uint8Array, a PILImage, a NumpyArray,
\* an ArrayBuffer (or another object whose buffer property is one), or
\* anything else.
Kinds == {"bytes", "pil", "ndarray", "arraybuffer", "other"}

\* The kinds the type tests of remove (lines 752-763) know.
SupportedKinds == {"bytes", "pil", "ndarray"}
Sizes == {1, 2}

Item(kind, id, size) == [kind |-> kind, id |-> id, size |-> size, alpha |-> <<>>]

Pic(what, src, size, pp, alpha) ==
    [what |-> what, src |-> src, size |-> size, pp |-> pp, alpha |-> alpha]

\* The image an item decodes to: Image.openAsync of the bytes, the image
\* buffer itself, or Image.fromarray of the numeric buffer.
ImageOf(item) == Pic("image", item.id, item.size, FALSE, item.alpha)

\* remove lines 752-767: the return type recorded for an item.
ReturnTypeOf(item, force) ==
    IF item.kind = "bytes" \/ force THEN "BYTES"
    ELSE IF item.kind = "pil" THEN "PILLOW"
    ELSE IF item.kind = "ndarray" THEN "NDARRAY"
    ELSE "unsupported"

\* io.BytesIO's constructor copies an ArrayBuffer and otherwise reads
\* initialData.buffer.slice: it throws a TypeError for anything else (an
\* image buffer and a numeric buffer have no buffer property).
BytesIOAccepts(item) == item.kind \in {"bytes", "arraybuffer"}

\* remove rejects with error e: nothing is returned.
Reject(e) ==
    /\ rpc' = "rejected"
    /\ error' = e

\* A JavaScript number is NaN, an infinity, or the fraction n / d with d > 0.
NaN == [k |-> "nan", n |-> 0, d |-> 1]
PosInf == [k |-> "inf", n |-> 1, d |-> 1]
NegInf == [k |-> "inf", n |-> -1, d |-> 1]
Num(n, d) == [k |-> "num", n |-> n, d |-> d]

RECURSIVE GCD(_, _)
GCD(a, b) == IF b = 0 THEN a ELSE GCD(b, a % b)

\* The fraction n / d in lowest terms, d > 0.
Frac(n, d) ==
    LET g == GCD(IF n < 0 THEN -n ELSE n, d)
    IN  IF n = 0 THEN Num(0, 1) ELSE Num(n \div g, d \div g)

IsNaN(x) == x.k = "nan"
IsNum(x) == x.k = "num"

\* The JavaScript comparison a < b: false when either side is NaN.
Less(a, b) ==
    /\ ~IsNaN(a)
    /\ ~IsNaN(b)
    /\ IF IsNum(a) /\ IsNum(b) THEN a.n * b.d < b.n * a.d
       ELSE IF IsNum(a) THEN b.n > 0
       ELSE IF IsNum(b) THEN a.n < 0
       ELSE a.n < b.n

\* The JavaScript product a * b.
Times(a, b) ==
    IF IsNaN(a) \/ IsNaN(b) THEN NaN
    ELSE IF IsNum(a) /\ IsNum(b) THEN Frac(a.n * b.n, a.d * b.d)
    ELSE IF a.n = 0 \/ b.n = 0 THEN NaN
    ELSE IF (a.n > 0) = (b.n > 0) THEN PosInf
    ELSE NegInf

\* The alpha_matting_foreground_threshold, alpha_matting_background_threshold
\* and alpha_matting_erode_size a caller passes: the defaults of lines 704-706,
\* or other numbers.
MattingArgs ==
    {[foreground_threshold |-> 240, background_threshold |-> 10, erode_size |-> Num(10, 1)],
     [foreground_threshold |-> 200, background_threshold |-> 50, erode_size |-> Num(0, 1)],
     [foreground_threshold |-> 240, background_threshold |-> 10, erode_size |-> PosInf]}

\* A caller invokes remove(data, ...options).
CallRemove ==
    /\ mode = "idle"
    /\ \E batch \in BOOLEAN, n \in 0..MaxBatch :
       \E kinds \in [1..n -> Kinds], sizes \in [1..n -> Sizes] :
         /\ (~batch) => n = 1
         /\ isBatch' = batch
         /\ data' = [k \in 1..n |-> Item(kinds[k], k, sizes[k])]
    /\ mode' = "remove"
    /\ alpha_matting' \in BOOLEAN
    /\ only_mask' \in BOOLEAN
    /\ post_process_mask' \in BOOLEAN
    /\ force_return_bytes' \in BOOLEAN
    /\ mattingArgs' \in MattingArgs
    /\ rpc' = "decode"
    /\ ri' = 1
    /\ UNCHANGED <<session, p1Vars, pbVars, amVars, allCutouts, results, retval, error>>

\* Lines 748-770, one iteration: decode the item and record its return type.
DecodeItem ==
    /\ rpc = "decode"
    /\ ri <= Len(data)
    /\ LET item == data[ri]
           rt == ReturnTypeOf(item, force_return_bytes)
           push == /\ images' = Append(images, ImageOf(item))
                   /\ returnTypes' = Append(returnTypes, rt)
                   /\ ri' = ri + 1
                   /\ UNCHANGED <<rpc, error>>
       IN  IF rt = "BYTES"
             THEN IF BytesIOAccepts(item)
                    THEN \/ push
                         \/ Reject("image_load") /\ UNCHANGED <<ri, p1Vars>>
                    ELSE Reject("type_error") /\ UNCHANGED <<ri, p1Vars>>
             ELSE IF rt = "unsupported"
                    THEN Reject("unsupported_input") /\ UNCHANGED <<ri, p1Vars>>
                    ELSE push
    /\ UNCHANGED <<argVars, data, session, pbVars, amVars, allCutouts, results, retval>>

\* Lines 771-774: the session argument; remove creates and initializes a
\* default session when none is passed.
AcquireSession ==
    /\ rpc = "decode"
    /\ ri > Len(data)
    /\ \E s \in {"undefined", "uninit", "ready"} :
         /\ session # "unset" => s = session
         /\ IF s = "undefined"
              THEN \/ session' = "ready" /\ rpc' = "pb_enter" /\ UNCHANGED error
                   \/ Reject("model_load") /\ UNCHANGED session
              ELSE session' = s /\ rpc' = "pb_enter" /\ UNCHANGED error
    /\ UNCHANGED <<argVars, data, ri, p1Vars, pbVars, amVars, allCutouts, results, retval>>

\* Where remove goes when predict_batch has returned: line 788.
Phase3Entry == IF alpha_matting THEN "am_pair" ELSE "pl_cut"

\* predict_batch lines 118-126: ensureInitialized, then the empty batch
\* returns [] at once.
PredictBatchEnter ==
    /\ rpc = "pb_enter"
    /\ \/ /\ session' = "ready"
          /\ IF Len(images) = 0
               THEN /\ allMasks' = <<>>
                    /\ rpc' = Phase3Entry
               ELSE /\ rpc' = "pb_norm"
                    /\ UNCHANGED allMasks
          /\ ri' = 1
          /\ UNCHANGED error
       \/ /\ session = "uninit"
          /\ Reject("model_load")
          /\ UNCHANGED <<session, ri, allMasks>>
    /\ UNCHANGED <<argVars, data, p1Vars, preprocessedInputs, allPredictions, pbResults,
                   amVars, allCutouts, results, retval>>

\* normalize(img, ...) turned into the input tensor of the model.
Normalize(img) == [of |-> img.src]

\* The model's output for an input tensor.
Forward(t) == [of |-> t.of]

\* A variant of PreprocessedInput that records the model's input size in
\* place of the image's own size.
PreprocessedInputModelSize(img) == [inputs |-> Normalize(img), originalSize |-> 1]

\* What predict_batch records for an image in its first phase: lines 149-152.
PreprocessedInput(img) == [inputs |-> Normalize(img), originalSize |-> img.size]

\* A variant of PbNormalize that issues the forward pass of an image right
\* after normalizing it.
PbNormalizeThenRun ==
    /\ rpc = "pb_norm"
    /\ preprocessedInputs' = Append(preprocessedInputs, PreprocessedInput(images[ri]))
    /\ rpc' = "pb_run"
    /\ UNCHANGED <<argVars, data, session, ri, p1Vars, allPredictions, pbResults, allMasks,
                   amVars, allCutouts, results, retval, error>>

\* predict_batch lines 131-153, one iteration.
PbNormalize ==
    /\ rpc = "pb_norm"
    /\ preprocessedInputs' = Append(preprocessedInputs, PreprocessedInput(images[ri]))
    /\ IF ri < Len(images)
         THEN ri' = ri + 1 /\ UNCHANGED rpc
         ELSE ri' = 1 /\ rpc' = "pb_run"
    /\ UNCHANGED <<argVars, data, session, p1Vars, allPredictions, pbResults, allMasks,
                   amVars, allCutouts, results, retval, error>>

\* predict_batch line 162: the forward pass of input ri is issued and awaited.
PbRunIssue ==
    /\ rpc = "pb_run"
    /\ rpc' = "pb_await"
    /\ UNCHANGED <<argVars, data, session, ri, p1Vars, pbVars, amVars, allCutouts,
                   results, retval, error>>

\* predict_batch lines 162-169: the forward pass settles; a failure is
\* logged and rethrown (lines 187-190).
PbRunSettle ==
    /\ rpc = "pb_await"
    /\ \/ /\ allPredictions' = Append(allPredictions,
                [pred |-> Forward(preprocessedInputs[ri].inputs),
                 originalSize |-> preprocessedInputs[ri].originalSize])
          /\ IF ri < Len(preprocessedInputs)
               THEN ri' = ri + 1 /\ rpc' = "pb_run"
               ELSE ri' = 1 /\ rpc' = "pb_mask"
          /\ UNCHANGED error
       \/ /\ Reject("inference")
          /\ UNCHANGED <<ri, allPredictions>>
    /\ UNCHANGED <<argVars, data, session, p1Vars, preprocessedInputs, pbResults, allMasks,
                   amVars, allCutouts, results, retval>>

\* predict_batch lines 177-181: processU2NetOutput, Image.fromarray and the
\* resize back to the recorded original size.
MaskFromPrediction(p) == Pic("mask", p.pred.of, p.originalSize, FALSE, <<>>)

\* predict_batch lines 175-186, one iteration; the last one returns results.
PbMask ==
    /\ rpc = "pb_mask"
    /\ pbResults' = Append(pbResults, <<MaskFromPrediction(allPredictions[ri])>>)
    /\ IF ri < Len(allPredictions)
         THEN ri' = ri + 1 /\ UNCHANGED <<rpc, allMasks>>
         ELSE ri' = 1 /\ rpc' = Phase3Entry /\ allMasks' = pbResults'
    /\ UNCHANGED <<argVars, data, session, p1Vars, preprocessedInputs, allPredictions,
                   amVars, allCutouts, results, retval, error>>

\* post_process(mask): open, blur, rethreshold.
PostProcess(m) == [m EXCEPT !.pp = TRUE]

\* Lines 796-798 and 948-950.
MaybePostProcess(m) == IF post_process_mask THEN PostProcess(m) ELSE m

\* Lines 792-807, one image: pair the image with each of its masks.
AmPair ==
    /\ rpc = "am_pair"
    /\ IF ri <= Len(images)
         THEN /\ allImageMaskPairs' = allImageMaskPairs \o
                    [j \in 1..Len(allMasks[ri]) |->
                        [image |-> images[ri], mask |-> MaybePostProcess(allMasks[ri][j]),
                         imageIdx |-> ri, maskIdx |-> j]]
              /\ ri' = ri + 1
              /\ UNCHANGED rpc
         ELSE /\ rpc' = "am_pre"
              /\ ri' = 1
              /\ UNCHANGED allImageMaskPairs
    /\ UNCHANGED <<argVars, data, session, p1Vars, pbVars, preprocessedPairs, alphaResults,
                   finalCutouts, allCutouts, results, retval, error>>

\* new Uint8Array(length) throws a RangeError when ToIndex(length) fails: the
\* length, truncated, is negative or not finite.
TypedArrayThrows(length) ==
    IF IsNaN(length) THEN FALSE
    ELSE IF IsNum(length) THEN length.n <= -length.d
    ELSE TRUE

\* np.ones(shape, {dtype: 'uint8'}) allocates a Uint8Array of the product of
\* the dimensions.
onesThrows(shape) == TypedArrayThrows(Times(Times(Num(1, 1), shape[1]), shape[2]))

\* Lines 850-856: the structuring element is built when the erode size is
\* positive; binary_erosion takes it and uses its own 3 x 3 window.
structureThrows(erode_size) ==
    Less(Num(0, 1), erode_size) /\ onesThrows(<<erode_size, erode_size>>)

\* Lines 847-874: the trimap of a mask, divided by 255: foreground where the
\* mask exceeds the foreground threshold, background where it is below the
\* background threshold, both eroded when the erode size is positive.
Trimap(mask, args) ==
    [of |-> mask.src, pp |-> mask.pp,
     foreground_threshold |-> args.foreground_threshold,
     background_threshold |-> args.background_threshold,
     erode_size |-> args.erode_size]

\* Lines 820-874, one pair: the RGB array of the image and the trimap of the
\* mask, both divided by 255.
AmPreprocess ==
    /\ rpc = "am_pre"
    /\ IF ri <= Len(allImageMaskPairs)
         THEN IF structureThrows(mattingArgs.erode_size)
                THEN /\ Reject("range_error")
                     /\ UNCHANGED <<ri, preprocessedPairs>>
                ELSE /\ preprocessedPairs' = Append(preprocessedPairs,
                           [img_normalized |-> [of |-> allImageMaskPairs[ri].image.src,
                                                size |-> allImageMaskPairs[ri].image.size],
                            trimap_normalized |->
                                Trimap(allImageMaskPairs[ri].mask, mattingArgs),
                            imageIdx |-> allImageMaskPairs[ri].imageIdx,
                            maskIdx |-> allImageMaskPairs[ri].maskIdx])
                     /\ ri' = ri + 1
                     /\ UNCHANGED <<rpc, error>>
         ELSE /\ rpc' = "am_est"
              /\ ri' = 1
              /\ UNCHANGED <<preprocessedPairs, error>>
    /\ UNCHANGED <<argVars, data, session, p1Vars, pbVars, allImageMaskPairs, alphaResults,
                   finalCutouts, allCutouts, results, retval>>

\* estimate_alpha_cf(image, trimap): the matte MODNet computes from the image;
\* the trimap is not read.
EstimateAlpha(img, trimap_normalized) == Pic("alpha", img.of, img.size, FALSE, <<>>)

\* Lines 887-899: estimate_alpha_cf is issued and awaited for pair ri, or the
\* loop is over.
AmEstimateIssue ==
    /\ rpc = "am_est"
    /\ IF ri <= Len(preprocessedPairs)
         THEN rpc' = "am_await" /\ UNCHANGED ri
         ELSE rpc' = "am_cut" /\ ri' = 1
    /\ UNCHANGED <<argVars, data, session, p1Vars, pbVars, amVars, allCutouts, results,
                   retval, error>>

\* What remove does when the estimator settles for pair i (ok or not):
\* lines 891-898.  The await is in no try block: a failure rejects remove.
OnEstimate(i, ok) ==
    IF ok
      THEN /\ alphaResults' = Append(alphaResults,
                 [alpha |-> EstimateAlpha(preprocessedPairs[i].img_normalized,
                                          preprocessedPairs[i].trimap_normalized),
                  img_normalized |-> preprocessedPairs[i].img_normalized,
                  imageIdx |-> preprocessedPairs[i].imageIdx,
                  maskIdx |-> preprocessedPairs[i].maskIdx])
           /\ ri' = i + 1
           /\ rpc' = "am_est"
           /\ UNCHANGED error
      ELSE /\ Reject("matting")
           /\ UNCHANGED <<ri, alphaResults>>

AmEstimateSettle ==
    /\ rpc = "am_await"
    /\ \E ok \in BOOLEAN : OnEstimate(ri, ok)
    /\ UNCHANGED <<argVars, data, session, p1Vars, pbVars, allImageMaskPairs,
                   preprocessedPairs, finalCutouts, allCutouts, results, retval>>

\* Lines 915-918: estimate_foreground_ml, stack_images, clip and fromarray.
MatteCutout(r) == Pic("matte", r.img_normalized.of, r.img_normalized.size, FALSE, <<r.alpha>>)

\* The cutouts of image i among the final cutouts, in order: lines 930-936.
RECURSIVE CutoutsOf(_, _)
CutoutsOf(fc, i) ==
    IF fc = <<>> THEN <<>>
    ELSE IF Head(fc).imageIdx = i
           THEN <<Head(fc).cutout>> \o CutoutsOf(Tail(fc), i)
           ELSE CutoutsOf(Tail(fc), i)

\* Lines 911-936, one alpha result; after the last one the cutouts are put
\* back per image.
AmCutout ==
    /\ rpc = "am_cut"
    /\ IF ri <= Len(alphaResults)
         THEN /\ finalCutouts' = Append(finalCutouts,
                    [cutout |-> MatteCutout(alphaResults[ri]),
                     imageIdx |-> alphaResults[ri].imageIdx,
                     maskIdx |-> alphaResults[ri].maskIdx])
              /\ ri' = ri + 1
              /\ UNCHANGED <<rpc, allCutouts>>
         ELSE /\ allCutouts' = [i \in 1..Len(images) |-> CutoutsOf(finalCutouts, i)]
              /\ rpc' = "encode"
              /\ ri' = 1
              /\ UNCHANGED finalCutouts
    /\ UNCHANGED <<argVars, data, session, p1Vars, pbVars, allImageMaskPairs,
                   preprocessedPairs, alphaResults, results, retval, error>>

\* WebPILImage.putalpha: the mask is written into the image's own alpha
\* channel, in place.
PutAlpha(img, mask) == [img EXCEPT !.alpha = <<mask>>]

\* The cutout of one image-mask pair without matting: lines 954-958.
PlainCutout(img, mask) == IF only_mask THEN mask ELSE PutAlpha(img, mask)

\* The image object after the masks loop of lines 947-961 ran on it.
RECURSIVE AfterMasks(_, _)
AfterMasks(img, masks) ==
    IF masks = <<>> \/ only_mask THEN img
    ELSE AfterMasks(PutAlpha(img, MaybePostProcess(Head(masks))), Tail(masks))

\* A variant of PlCutNext that encodes right after each image's cutout.
PlCutNextEager(i, n) == <<"encode", 1>>

\* Where the loop of lines 942-964 goes after image i of n.
PlCutNext(i, n) == IF i < n THEN <<"pl_cut", i + 1>> ELSE <<"encode", 1>>

\* Lines 942-964, one image.  An image buffer passed by the caller is
\* processed in place: images[i] is the caller's object.
PlCut ==
    /\ rpc = "pl_cut"
    /\ IF ri <= Len(images)
         THEN LET img == images[ri]
                  after == AfterMasks(img, allMasks[ri])
                  cutouts == [j \in 1..Len(allMasks[ri]) |->
                                IF only_mask THEN MaybePostProcess(allMasks[ri][j])
                                ELSE after]
              IN  /\ allCutouts' = Append(allCutouts, cutouts)
                  /\ images' = [images EXCEPT ![ri] = after]
                  /\ data' = IF returnTypes[ri] = "PILLOW"
                               THEN [data EXCEPT ![ri].alpha = after.alpha]
                               ELSE data
                  /\ rpc' = PlCutNext(ri, Len(images))[1]
                  /\ ri' = PlCutNext(ri, Len(images))[2]
         ELSE /\ rpc' = "encode"
              /\ ri' = 1
              /\ UNCHANGED <<allCutouts, images, data>>
    /\ UNCHANGED <<argVars, session, returnTypes, pbVars, amVars, results, retval, error>>

\* get_concat_v_multi: the only cutout itself, or the cutouts stacked.
ConcatV(cutouts) ==
    IF Len(cutouts) = 1 THEN cutouts[1]
    ELSE Pic("stack", cutouts[1].src, cutouts[1].size, FALSE, cutouts)

\* Lines 981-995: the cutout in the item's return type.
Encoded(rt, cutout) ==
    IF rt = "PILLOW" THEN [rep |-> "pil", pic |-> cutout]
    ELSE IF rt = "NDARRAY" THEN [rep |-> "ndarray", pic |-> cutout]
    ELSE [rep |-> "bytes", pic |-> cutout]

\* A variant of ReturnValue that returns the list whatever the input was.
ReturnValueAlwaysList(batch, res) == [isList |-> TRUE, items |-> res]

\* Lines 999-1003.
ReturnValue(batch, res) ==
    IF batch THEN [isList |-> TRUE, items |-> res]
    ELSE [isList |-> FALSE, items |-> <<res[1]>>]

\* Lines 970-1003, one image; after the last one remove returns.
EncodeItem ==
    /\ rpc = "encode"
    /\ IF ri <= Len(images)
         THEN /\ results' = Append(results,
                    Encoded(returnTypes[ri],
                            IF Len(allCutouts[ri]) > 0 THEN ConcatV(allCutouts[ri])
                            ELSE images[ri]))
              /\ ri' = ri + 1
              /\ UNCHANGED <<rpc, retval>>
         ELSE /\ retval' = ReturnValue(isBatch, results)
              /\ rpc' = "resolved"
              /\ UNCHANGED <<ri, results>>
    /\ UNCHANGED <<argVars, data, session, p1Vars, pbVars, amVars, allCutouts, error>>

(***************************************************************************)
(* VideoFrameProcessor (libraries/video.ts) on the module-level ffmpeg     *)
(* instance, and remove_video (bg.ts).  fsFrames[k] is the content of the  *)
(* file frame_<k>.png and fsOut[k] that of outframe_<k-1>.png in ffmpeg's  *)
(* file system; a frame's content is named by a number, k > 0 for frame k  *)
(* of the input video and -k for frame k left by an earlier video.         *)
(***************************************************************************)

\* What an earlier remove_video call left as outframe_<k-1>.png.
StaleOut(k) == [rep |-> "bytes", pic |-> Pic("mask", -k, 1, FALSE, <<>>)]

Max(a, b) == IF a >= b THEN a ELSE b

\* ffmpeg -i input.mp4 frame_%04d.png: the n frames of the input are written
\* as frame_0001.png .. frame_<n>.png; other files stay.
ExtractFrames(fs, n) ==
    [k \in 1..Max(n, Len(fs)) |-> IF k <= n THEN k ELSE fs[k]]

\* A caller invokes remove_video(data, ...options) on a video of n frames.
CallRemoveVideo ==
    /\ mode = "idle"
    /\ mode' = "video"
    /\ videoFrames' \in 0..MaxFrames
    /\ alpha_matting' \in BOOLEAN
    /\ only_mask' \in BOOLEAN
    /\ post_process_mask' \in BOOLEAN
    /\ mattingArgs' \in MattingArgs
    /\ onProgress' \in BOOLEAN
    /\ progressCalls' = <<>>
    /\ vpc' = "session"
    /\ UNCHANGED <<isBatch, force_return_bytes, data, session, rpc, ri, p1Vars, pbVars,
                   amVars, allCutouts, results, retval, error, procVars, fsFrames, fsOut,
                   allFrames, processedFrames, vi, exported>>

\* remove_video lines 1046-1049: create and initialize the default session
\* when none is passed.
VideoSession ==
    /\ vpc = "session"
    /\ \E s \in {"undefined", "uninit", "ready"} :
         IF s = "undefined"
           THEN \/ session' = "ready" /\ vpc' = "init" /\ UNCHANGED error
                \/ vpc' = "rejected" /\ error' = "model_load" /\ UNCHANGED session
           ELSE session' = s /\ vpc' = "init" /\ UNCHANGED error
    /\ UNCHANGED <<argVars, videoFrames, data, rpc, ri, p1Vars, pbVars, amVars, allCutouts,
                   results, retval, procVars, fsFrames, fsOut, allFrames, processedFrames,
                   vi, exported, progressVars>>

\* new VideoFrameProcessor(data) and init(), lines 17-46: extract the frames
\* and list the frame files, sorted by name.
VideoInit ==
    /\ vpc = "init"
    /\ \/ /\ fsFrames' = ExtractFrames(fsFrames, videoFrames)
          /\ extractedFrameNames' = [k \in 1..Len(fsFrames') |-> k]
          /\ frameIndex' = 0
          /\ pushedFrameCount' = 0
          /\ isReady' = TRUE
          /\ vpc' = "extract"
          /\ UNCHANGED error
       \/ /\ vpc' = "rejected"
          /\ error' = "ffmpeg"
          /\ UNCHANGED <<procVars, fsFrames>>
    /\ UNCHANGED <<argVars, videoFrames, data, session, rpc, ri, p1Vars, pbVars, amVars,
                   allCutouts, results, retval, fsOut, allFrames, processedFrames, vi,
                   exported, progressVars>>

\* remove_video line 1063: the callback is called for the frameIndex-th
\* extracted frame.
ExtractionReports(callback, count) == callback /\ count % 10 = 0

\* remove_video line 1092: the callback is called for the push of
\* processedFrames[i]; count is i + 1.
AssemblyReports(callback, count) == callback /\ count % 10 = 0

\* remove_video lines 1059-1083 with next() (video.ts lines 53-63): one frame
\* is read, or next() returns null and remove is called on all the frames
\* with force_return_bytes = true.
VideoNext ==
    /\ vpc = "extract"
    /\ IF frameIndex >= Len(extractedFrameNames)
         THEN /\ data' = [k \in 1..Len(allFrames) |-> Item("bytes", allFrames[k], 1)]
              /\ isBatch' = TRUE
              /\ force_return_bytes' = TRUE
              /\ rpc' = "decode"
              /\ ri' = 1
              /\ vpc' = "remove"
              /\ UNCHANGED <<frameIndex, allFrames, progressCalls>>
         ELSE /\ frameIndex' = frameIndex + 1
              /\ allFrames' = Append(allFrames, fsFrames[extractedFrameNames[frameIndex + 1]])
              /\ progressCalls' =
                    IF ExtractionReports(onProgress, frameIndex + 1)
                      THEN Append(progressCalls, <<frameIndex + 1, frameIndex + 1>>)
                      ELSE progressCalls
              /\ UNCHANGED <<data, isBatch, force_return_bytes, rpc, ri, vpc>>
    /\ UNCHANGED <<mode, alpha_matting, only_mask, post_process_mask, mattingArgs,
                   videoFrames, session, p1Vars, pbVars, amVars, allCutouts, results,
                   retval, error, extractedFrameNames, pushedFrameCount, isReady,
                   fsFrames, fsOut, processedFrames, vi, exported, onProgress>>

\* remove_video line 1073: the awaited remove call settles.
VideoRemoveDone ==
    /\ vpc = "remove"
    /\ rpc \in {"resolved", "rejected"}
    /\ IF rpc = "resolved"
         THEN /\ processedFrames' = retval.items
              /\ vpc' = "push"
         ELSE /\ vpc' = "rejected"
              /\ UNCHANGED processedFrames
    /\ vi' = 1
    /\ UNCHANGED <<argVars, videoFrames, data, session, rpc, ri, p1Vars, pbVars, amVars,
                   allCutouts, results, retval, error, procVars, fsFrames, fsOut, allFrames,
                   exported, progressVars>>

\* A variant of OutframeIndex that does not count the pushed frames.
OutframeIndexFirst(count) == 1

\* push (video.ts lines 74-79): the file the frame is written to, as an index
\* into fsOut (outframe_<count>.png).
OutframeIndex(count) == count + 1

WriteFile(fs, k, content) ==
    IF k <= Len(fs) THEN [fs EXCEPT ![k] = content] ELSE Append(fs, content)

\* remove_video lines 1089-1100 with push (video.ts lines 70-80): one
\* processed frame is pushed, or the loop is over and exportFinalVideo is
\* called, which refuses when nothing was pushed (lines 88-90).
VideoPush ==
    /\ vpc = "push"
    /\ IF vi <= Len(processedFrames)
         THEN /\ fsOut' = WriteFile(fsOut, OutframeIndex(pushedFrameCount), processedFrames[vi])
              /\ pushedFrameCount' = pushedFrameCount + 1
              /\ vi' = vi + 1
              /\ progressCalls' =
                    IF AssemblyReports(onProgress, vi)
                      THEN Append(progressCalls, <<Len(allFrames) + vi, Len(allFrames) * 2>>)
                      ELSE progressCalls
              /\ UNCHANGED <<vpc, error>>
         ELSE /\ IF pushedFrameCount = 0
                   THEN vpc' = "rejected" /\ error' = "no_frames"
                   ELSE vpc' = "exporting" /\ UNCHANGED error
              /\ UNCHANGED <<fsOut, pushedFrameCount, vi, progressCalls>>
    /\ UNCHANGED <<argVars, videoFrames, data, session, rpc, ri, p1Vars, pbVars, amVars,
                   allCutouts, results, retval, extractedFrameNames, frameIndex, isReady,
                   fsFrames, allFrames, processedFrames, exported, onProgress>>

\* exportFinalVideo lines 92-108: ffmpeg encodes the outframe files into
\* output.mp4 and the blob URL is returned.
VideoExport ==
    /\ vpc = "exporting"
    /\ \/ /\ exported' = fsOut
          /\ vpc' = "resolved"
          /\ UNCHANGED error
       \/ /\ vpc' = "rejected"
          /\ error' = "ffmpeg"
          /\ UNCHANGED exported
    /\ UNCHANGED <<argVars, videoFrames, data, session, rpc, ri, p1Vars, pbVars, amVars,
                   allCutouts, results, retval, procVars, fsFrames, fsOut, allFrames,
                   processedFrames, vi, progressVars>>

(***************************************************************************)
(* The trimap of one image-mask pair (remove, lines 829-863) with the      *)
(* numpy and pymatting functions it calls.  Arrays are functions on        *)
(* 0..n-1 (the flat data of a NumpyArray); a mask is given by its shape    *)
(* <<height, width>> and the gray value of each of its pixels.             *)
(***************************************************************************)

\* np.asarray of a mask picture: the RGBA data of its canvas, shape
\* [height, width, 4]; Image.fromarray wrote R = G = B = gray, A = 255.
asarray(gray, height, width) ==
    [i \in 0..(4 * height * width - 1) |-> IF i % 4 = 3 THEN 255 ELSE gray[i \div 4]]

\* A variant of gt with a non-strict comparison.
ge(a, value) == [i \in DOMAIN a |-> IF a[i] >= value THEN 1 ELSE 0]

\* WebNumpyArray.gt and lt: element-wise strict comparisons, 1 or 0.
gt(a, value) == [i \in DOMAIN a |-> IF a[i] > value THEN 1 ELSE 0]

lt(a, value) == [i \in DOMAIN a |-> IF a[i] < value THEN 1 ELSE 0]

\* Lines 850-856: np.ones([size, size]) when the erode size is positive,
\* null (0 here) otherwise; a structure is given by its side.
StructureOf(erode_size) == IF erode_size > 0 THEN erode_size ELSE 0

\* binary_erosion line 335: the side of the neighbourhood.
StructureSize(structure) == IF structure # 0 THEN 3 ELSE 3

\* A variant of binary_erosion that sets an element when any element of
\* its neighbourhood is set.
binary_dilation(input, height, width, structure, border_value) ==
    LET halfSize == StructureSize(structure) \div 2
        value(ny, nx) ==
            IF ny < 0 \/ ny >= height \/ nx < 0 \/ nx >= width
              THEN border_value ELSE input[ny * width + nx]
        anySet(y, x) ==
            \E dy \in (-halfSize)..halfSize, dx \in (-halfSize)..halfSize :
                value(y + dy, x + dx) # 0
    IN  [i \in DOMAIN input |->
            IF i < height * width /\ anySet(i \div width, i % width) THEN 1 ELSE 0]

\* binary_erosion: height and width are the first two entries of the
\* shape, the loops run over height * width elements of the flat data, and
\* the rest of the result stays 0.
binary_erosion(input, height, width, structure, border_value) ==
    LET halfSize == StructureSize(structure) \div 2
        value(ny, nx) ==
            IF ny < 0 \/ ny >= height \/ nx < 0 \/ nx >= width
              THEN border_value ELSE input[ny * width + nx]
        shouldErode(y, x) ==
            \A dy \in (-halfSize)..halfSize, dx \in (-halfSize)..halfSize :
                value(y + dy, x + dx) # 0
    IN  [i \in DOMAIN input |->
            IF i < height * width /\ shouldErode(i \div width, i % width)
              THEN input[i] ELSE 0]

\* np.full(shape, fill_value).
full(n, fill_value) == [i \in 0..(n - 1) |-> fill_value]

\* WebNumpyArray.setValues: value is written wherever indices is set.
setValues(a, indices, value) ==
    [i \in DOMAIN a |-> IF indices[i] > 0 THEN value ELSE a[i]]

\* The shapes <<height, width>> and the gray values of the masks.
Shapes == {<<1, 1>>, <<2, 2>>, <<3, 3>>, <<3, 4>>, <<4, 4>>}
MaskValues == {0, 128, 255}

\* The threshold pairs <<foreground, background>>: the defaults, the
\* defaults swapped, and equal thresholds.
Thresholds == {<<240, 10>>, <<10, 240>>, <<128, 128>>}

\* A mask of n pixels that has gray value base except at pixel p.
MaskWith(n, base, p, dev) == [q \in 0..(n - 1) |-> IF q = p THEN dev ELSE base]

NoArray == [i \in {} |-> 0]

\* No trimap is being built.
TrimapIdle ==
    /\ tpc = "idle"
    /\ maskShape = <<0, 0>>
    /\ maskGray = NoArray
    /\ alpha_matting_foreground_threshold = 240
    /\ alpha_matting_background_threshold = 10
    /\ alpha_matting_erode_size = 10
    /\ mask_array = NoArray
    /\ is_foreground = NoArray
    /\ is_background = NoArray
    /\ is_foreground_eroded = NoArray
    /\ is_background_eroded = NoArray
    /\ trimap = NoArray

\* A pair with some mask, thresholds and erode size reaches line 829.
TrimapStart ==
    /\ tpc = "start"
    /\ \E shape \in Shapes, base \in MaskValues, dev \in MaskValues :
         \E p \in 0..(shape[1] * shape[2] - 1) :
            /\ maskShape = shape
            /\ maskGray = MaskWith(shape[1] * shape[2], base, p, dev)
    /\ \E t \in Thresholds :
         /\ alpha_matting_foreground_threshold = t[1]
         /\ alpha_matting_background_threshold = t[2]
    /\ alpha_matting_erode_size \in 0..MaxErode
    /\ mask_array = NoArray
    /\ is_foreground = NoArray
    /\ is_background = NoArray
    /\ is_foreground_eroded = NoArray
    /\ is_background_eroded = NoArray
    /\ trimap = NoArray

trimapInputs == <<maskShape, maskGray, alpha_matting_foreground_threshold,
                  alpha_matting_background_threshold, alpha_matting_erode_size>>

\* Line 829: mask_array = np.asarray(pair.mask).
TrimapAsArray ==
    /\ tpc = "start"
    /\ mask_array' = asarray(maskGray, maskShape[1], maskShape[2])
    /\ tpc' = "threshold"
    /\ UNCHANGED <<trimapInputs, is_foreground, is_background, is_foreground_eroded,
                   is_background_eroded, trimap>>

\* Lines 847-848.
TrimapThreshold ==
    /\ tpc = "threshold"
    /\ is_foreground' = gt(mask_array, alpha_matting_foreground_threshold)
    /\ is_background' = lt(mask_array, alpha_matting_background_threshold)
    /\ tpc' = "erode"
    /\ UNCHANGED <<trimapInputs, mask_array, is_foreground_eroded, is_background_eroded,
                   trimap>>

\* Lines 850-859.
TrimapErode ==
    /\ tpc = "erode"
    /\ LET structure == StructureOf(alpha_matting_erode_size)
       IN  /\ is_foreground_eroded' =
                 binary_erosion(is_foreground, maskShape[1], maskShape[2], structure, 0)
           /\ is_background_eroded' =
                 binary_erosion(is_background, maskShape[1], maskShape[2], structure, 1)
    /\ tpc' = "fill"
    /\ UNCHANGED <<trimapInputs, mask_array, is_foreground, is_background, trimap>>

\* Line 861: trimap = np.full(mask_array.shape, 128).
TrimapFill ==
    /\ tpc = "fill"
    /\ trimap' = full(4 * maskShape[1] * maskShape[2], 128)
    /\ tpc' = "set_foreground"
    /\ UNCHANGED <<trimapInputs, mask_array, is_foreground, is_background,
                   is_foreground_eroded, is_background_eroded>>

\* Line 862: trimap.setValues(is_foreground_eroded, 255).
TrimapSetForeground ==
    /\ tpc = "set_foreground"
    /\ trimap' = setValues(trimap, is_foreground_eroded, 255)
    /\ tpc' = "set_background"
    /\ UNCHANGED <<trimapInputs, mask_array, is_foreground, is_background,
                   is_foreground_eroded, is_background_eroded>>

\* Line 863: trimap.setValues(is_background_eroded, 0).
TrimapSetBackground ==
    /\ tpc = "set_background"
    /\ trimap' = setValues(trimap, is_background_eroded, 0)
    /\ tpc' = "done"
    /\ UNCHANGED <<trimapInputs, mask_array, is_foreground, is_background,
                   is_foreground_eroded, is_background_eroded>>

(***************************************************************************)
(* The numbers of processU2NetOutput (the mask) and of the composite       *)
(* (remove, lines 915-918).                                                *)
(***************************************************************************)

\* Math.min and Math.max: NaN when either argument is NaN.
MathMin(a, b) == IF IsNaN(a) \/ IsNaN(b) THEN NaN ELSE IF Less(b, a) THEN b ELSE a

MathMax(a, b) == IF IsNaN(a) \/ IsNaN(b) THEN NaN ELSE IF Less(a, b) THEN b ELSE a

\* Math.round: the nearest integer, halves going up; NaN and the infinities
\* are returned as they are.
MathRound(x) == IF IsNum(x) THEN Num((2 * x.n + x.d) \div (2 * x.d), 1) ELSE x

\* a - b.
Sub(a, b) ==
    IF IsNaN(a) \/ IsNaN(b) THEN NaN
    ELSE IF IsNum(a) /\ IsNum(b) THEN Frac(a.n * b.d - b.n * a.d, a.d * b.d)
    ELSE IF IsNum(b) THEN a
    ELSE IF IsNum(a) THEN (IF b.n > 0 THEN NegInf ELSE PosInf)
    ELSE IF a.n = b.n THEN NaN ELSE a

\* a / b for a divisor b > 0 (a positive number or +Infinity).
Div(a, b) ==
    IF IsNaN(a) \/ IsNaN(b) THEN NaN
    ELSE IF IsNum(b) THEN (IF IsNum(a) THEN Frac(a.n * b.d, a.d * b.n) ELSE a)
    ELSE IF IsNum(a) THEN Num(0, 1) ELSE NaN

\* x * c for a positive integer c (WebNumpyArray.multiply).
multiply(x, c) == IF IsNum(x) THEN Frac(x.n * c, x.d) ELSE x

\* A variant of StoreUint8 that keeps what it is given.
StoreAsIs(x) == x

\* Storing a number into an element of a Uint8Array: NaN and the infinities
\* become 0, an integer is taken modulo 256.
StoreUint8(x) == IF IsNum(x) THEN Num((x.n \div x.d) % 256, 1) ELSE Num(0, 1)

\* Storing a number into an element of a Uint8ClampedArray (ImageData.data):
\* NaN becomes 0, everything else is clamped to 0..255.
StoreUint8Clamped(x) ==
    IF IsNaN(x) THEN Num(0, 1)
    ELSE MathRound(MathMax(Num(0, 1), MathMin(Num(255, 1), x)))

\* processU2NetOutput lines 243-250: the maximum and the minimum of the
\* first i values, starting from -Infinity and Infinity.
RECURSIVE MaxOf(_, _)
MaxOf(vals, i) ==
    IF i = 0 THEN NegInf
    ELSE LET ma == MaxOf(vals, i - 1) IN IF Less(ma, vals[i]) THEN vals[i] ELSE ma

RECURSIVE MinOf(_, _)
MinOf(vals, i) ==
    IF i = 0 THEN PosInf
    ELSE LET mi == MinOf(vals, i - 1) IN IF Less(vals[i], mi) THEN vals[i] ELSE mi

\* processU2NetOutput lines 252-266: the uint8 mask of a model output.
processU2NetOutput(vals) ==
    LET ma == MaxOf(vals, Len(vals))
        mi == MinOf(vals, Len(vals))
        range == Sub(ma, mi)
    IN  IF Less(Num(0, 1), range)
          THEN [i \in 1..Len(vals) |->
                  LET normalized == Div(Sub(vals[i], mi), range)
                      clipped == MathMax(Num(0, 1), MathMin(Num(1, 1), normalized))
                  IN  StoreUint8(MathRound(multiply(clipped, 255)))]
          ELSE [i \in 1..Len(vals) |->
                  IF Less(Num(1, 2), ma) THEN Num(255, 1) ELSE Num(0, 1)]

\* np.clip(a, 0, 255) on one element.
clip(x) == MathMax(Num(0, 1), MathMin(Num(255, 1), x))

\* WebNumpyArray.astype('uint8') on one element.
astype(x) == StoreUint8(MathMax(Num(0, 1), MathMin(Num(255, 1), MathRound(x))))

\* Image.fromarray on one element: rounded, clamped and written to the
\* canvas ImageData.
fromarray(x) == StoreUint8Clamped(MathRound(MathMax(Num(0, 1), MathMin(Num(255, 1), x))))

\* The numbers a model output or an alpha matte element can be.
Floats ==
    {NaN, PosInf, NegInf, Num(-1, 2), Num(0, 1), Num(1, 500), Num(1, 2), Num(1, 1),
     Num(3, 2), Num(300, 1)}

\* The model outputs of 1..MaxPred values.
RECURSIVE SeqsOf(_, _)
SeqsOf(S, n) ==
    IF n = 0 THEN {<<>>}
    ELSE {Append(s, x) : s \in SeqsOf(S, n - 1), x \in S}

Preds == UNION {SeqsOf(Floats, n) : n \in 1..MaxPred}

\* No mask or cutout is being computed.
NumIdle ==
    /\ npc = "idle"
    /\ pred = <<>>
    /\ maskData = <<>>
    /\ maskPixels = <<>>
    /\ alphaValue = NaN
    /\ cutoutValue = NaN
    /\ cutoutPixel = NaN

\* A model output and an element of the alpha matte of the estimator.
NumStart ==
    /\ npc = "start"
    /\ pred \in Preds
    /\ maskData = <<>>
    /\ maskPixels = <<>>
    /\ alphaValue \in Floats
    /\ cutoutValue = NaN
    /\ cutoutPixel = NaN

\* predict_batch line 177: maskArray = processU2NetOutput(pred, ...).
NumProcessOutput ==
    /\ npc = "start"
    /\ maskData' = processU2NetOutput(pred)
    /\ npc' = "mask"
    /\ UNCHANGED <<pred, maskPixels, alphaValue, cutoutValue, cutoutPixel>>

\* predict_batch line 179: mask = Image.fromarray(maskArray).
NumMaskFromArray ==
    /\ npc = "mask"
    /\ maskPixels' = [i \in 1..Len(maskData) |-> fromarray(maskData[i])]
    /\ npc' = "stack"
    /\ UNCHANGED <<pred, maskData, alphaValue, cutoutValue, cutoutPixel>>

\* remove line 916: stack_images puts the alpha matte into channel 3.
NumStack ==
    /\ npc = "stack"
    /\ cutoutValue' = alphaValue
    /\ npc' = "multiply"
    /\ UNCHANGED <<pred, maskData, maskPixels, alphaValue, cutoutPixel>>

\* remove line 917: cutout.multiply(255).
NumMultiply ==
    /\ npc = "multiply"
    /\ cutoutValue' = multiply(cutoutValue, 255)
    /\ npc' = "clip"
    /\ UNCHANGED <<pred, maskData, maskPixels, alphaValue, cutoutPixel>>

\* remove line 917: np.clip(..., 0, 255).
NumClip ==
    /\ npc = "clip"
    /\ cutoutValue' = clip(cutoutValue)
    /\ npc' = "astype"
    /\ UNCHANGED <<pred, maskData, maskPixels, alphaValue, cutoutPixel>>

\* remove line 917: .astype(np.uint8).
NumAsType ==
    /\ npc = "astype"
    /\ cutoutValue' = astype(cutoutValue)
    /\ npc' = "fromarray"
    /\ UNCHANGED <<pred, maskData, maskPixels, alphaValue, cutoutPixel>>

\* remove line 918: Image.fromarray(cutout).
NumFromArray ==
    /\ npc = "fromarray"
    /\ cutoutPixel' = fromarray(cutoutValue)
    /\ npc' = "done"
    /\ UNCHANGED <<pred, maskData, maskPixels, alphaValue, cutoutValue>>

(***************************************************************************)
(* post_process (bg.ts 658-669) and the cv2 operations it calls.  An array *)
(* is its flat data, a function on 0..(n - 1); erode, dilate and           *)
(* GaussianBlur take height and width from the first two entries of the    *)
(* shape and index the flat data with y * width + x.                       *)
(***************************************************************************)

\* bg.ts 507: getStructuringElement(MORPH_ELLIPSE, [3, 3]); with both radii
\* 1 an element is set when dx * dx + dy * dy <= 1.
kernel ==
    [k \in 0..8 |->
        LET dx == (k % 3) - 1
            dy == (k \div 3) - 1
        IN  IF dx * dx + dy * dy <= 1 THEN 1 ELSE 0]

\* The positions <<sy, sx>> inside the picture that a k by k window centred
\* on <<y, x>> covers.
Window(y, x, height, width, half) ==
    {<<sy, sx>> \in ((y - half)..(y + half)) \X ((x - half)..(x + half)) :
        sy >= 0 /\ sy < height /\ sx >= 0 /\ sx < width}

SetMin(S) == CHOOSE v \in S : \A u \in S : v <= u

SetMax(S) == CHOOSE v \in S : \A u \in S : v >= u

erode(src, height, width) ==
    [i \in DOMAIN src |->
        IF i < height * width
          THEN LET y == i \div width
                   x == i % width
               IN  SetMin({255} \cup
                          {src[p[1] * width + p[2]] :
                             p \in {q \in Window(y, x, height, width, 1) :
                                      kernel[(q[1] - y + 1) * 3 + (q[2] - x + 1)] = 1}})
          ELSE 0]

dilate(src, height, width) ==
    [i \in DOMAIN src |->
        IF i < height * width
          THEN LET y == i \div width
                   x == i % width
               IN  SetMax({0} \cup
                          {src[p[1] * width + p[2]] :
                             p \in {q \in Window(y, x, height, width, 1) :
                                      kernel[(q[1] - y + 1) * 3 + (q[2] - x + 1)] = 1}})
          ELSE 0]

\* morphologyEx with MORPH_OPEN: erosion followed by dilation.
morphologyEx(src, height, width) == dilate(erode(src, height, width), height, width)

\* createGaussianKernel with sigmaX = sigmaY = 2: exp(-(dx*dx + dy*dy) / 8),
\* in ten-thousandths.  The division by the kernel's sum is left out: it
\* cancels in sum / weightSum.
GaussWeight(dx, dy) ==
    LET d2 == dx * dx + dy * dy
    IN  CASE d2 = 0 -> 10000
          [] d2 = 1 -> 8825
          [] d2 = 2 -> 7788
          [] d2 = 4 -> 6065
          [] d2 = 5 -> 5353
          [] d2 = 8 -> 3679

RECURSIVE SumOver(_, _, _, _, _)
SumOver(P, src, width, y, x) ==
    IF P = {} THEN <<0, 0>>
    ELSE LET p == CHOOSE q \in P : TRUE
             rest == SumOver(P \ {p}, src, width, y, x)
             weight == GaussWeight(p[2] - x, p[1] - y)
         IN  <<rest[1] + src[p[1] * width + p[2]] * weight, rest[2] + weight>>

\* GaussianBlur with ksize [5, 5]: Math.round(sum / weightSum) over the
\* positions inside the picture.
GaussianBlur(src, height, width) ==
    [i \in DOMAIN src |->
        IF i < height * width
          THEN LET y == i \div width
                   x == i % width
                   s == SumOver(Window(y, x, height, width, 2), src, width, y, x)
               IN  (2 * s[1] + s[2]) \div (2 * s[2])
          ELSE 0]

\* np.where(condition, valueIfTrue, valueIfFalse).
where(condition, valueIfTrue, valueIfFalse) ==
    [i \in DOMAIN condition |-> IF condition[i] > 0 THEN valueIfTrue ELSE valueIfFalse]

post_process(mask, height, width) ==
    where(lt(GaussianBlur(morphologyEx(mask, height, width), height, width), 127), 0, 255)

\* No mask is being post-processed.
PostIdle ==
    /\ ppc = "idle"
    /\ ppShape = <<0, 0>>
    /\ ppGray = NoArray
    /\ ppMask = NoArray
    /\ processed_mask = NoArray
    /\ processed_again = NoArray

\* remove is about to post-process some mask (line 949).
PostStart ==
    /\ ppc = "start"
    /\ \E shape \in Shapes, base \in MaskValues, dev \in MaskValues :
         \E p \in 0..(shape[1] * shape[2] - 1) :
            /\ ppShape = shape
            /\ ppGray = MaskWith(shape[1] * shape[2], base, p, dev)
    /\ ppMask = NoArray
    /\ processed_mask = NoArray
    /\ processed_again = NoArray

\* Line 949: np.array(mask), the argument of post_process.
PostAsArray ==
    /\ ppc = "start"
    /\ ppMask' = asarray(ppGray, ppShape[1], ppShape[2])
    /\ ppc' = "open"
    /\ UNCHANGED <<ppShape, ppGray, processed_mask, processed_again>>

\* Line 665: processed_mask = morphologyEx(mask, MORPH_OPEN, kernel).
PostOpen ==
    /\ ppc = "open"
    /\ processed_mask' = morphologyEx(ppMask, ppShape[1], ppShape[2])
    /\ ppc' = "blur"
    /\ UNCHANGED <<ppShape, ppGray, ppMask, processed_again>>

\* Line 666: processed_mask = GaussianBlur(processed_mask, [5, 5], ...).
PostBlur ==
    /\ ppc = "blur"
    /\ processed_mask' = GaussianBlur(processed_mask, ppShape[1], ppShape[2])
    /\ ppc' = "where"
    /\ UNCHANGED <<ppShape, ppGray, ppMask, processed_again>>

\* Lines 667-668: processed_mask = np.where(processed_mask.lt(127), 0, 255),
\* returned.
PostWhere ==
    /\ ppc = "where"
    /\ processed_mask' = where(lt(processed_mask, 127), 0, 255)
    /\ ppc' = "returned"
    /\ UNCHANGED <<ppShape, ppGray, ppMask, processed_again>>

\* post_process applied to the mask it returned.
PostAgain ==
    /\ ppc = "returned"
    /\ processed_again' = post_process(processed_mask, ppShape[1], ppShape[2])
    /\ ppc' = "again"
    /\ UNCHANGED <<ppShape, ppGray, ppMask, processed_mask>>

(***************************************************************************)
(* WebNumpyArray.astype (numpy.ts 64-88).  An integer element is the pair  *)
(* [hi, lo] standing for hi * 65536 + lo with lo in 0..65535, so that      *)
(* values beyond 32 bits can be written down.                              *)
(***************************************************************************)

Wide(hi, lo) == [hi |-> hi, lo |-> lo]

\* The pair of a small integer.
WideOf(n) == Wide(IF n >= 0 THEN 0 ELSE -1, IF n >= 0 THEN n ELSE n + 65536)

WideLess(a, b) == a.hi < b.hi \/ (a.hi = b.hi /\ a.lo < b.lo)

WideMin(a, b) == IF WideLess(b, a) THEN b ELSE a

WideMax(a, b) == IF WideLess(a, b) THEN b ELSE a

\* Storing an integer into an element of an Int32Array: taken modulo 2^32
\* into -2^31 .. 2^31 - 1.
StoreInt32(x) ==
    LET h == x.hi % 65536
    IN  Wide(IF h >= 32768 THEN h - 65536 ELSE h, x.lo)

\* Storing an integer into an element of a Uint8Array: modulo 256.
StoreUint8Wide(x) == Wide(0, x.lo % 256)

\* astype on one integer element: the switch of lines 67-85 (Math.round
\* leaves an integer as it is).
astypeElement(dtype, x) ==
    IF dtype = "uint8" THEN StoreUint8Wide(WideMax(WideOf(0), WideMin(WideOf(255), x)))
    ELSE IF dtype = "int32" THEN StoreInt32(x)
    ELSE x

\* The integer elements of an array: in range, below and above the range of
\* uint8, and 2^31 - 2^16, 2^31, 3 * 10^9, 2^32, -2^31 and -2^31 - 2^16
\* around the range of int32 (each a float32 value).
CastValues ==
    {WideOf(-5), WideOf(0), WideOf(128), WideOf(255), WideOf(300), Wide(32767, 0),
     Wide(32768, 0), Wide(45776, 24064), Wide(65536, 0), Wide(-32768, 0), Wide(-32769, 0)}

\* The shapes with at most MaxCast elements.
CastShapes == {<<n>> : n \in 1..MaxCast} \cup {<<1, n>> : n \in 1..MaxCast}
                 \cup {<<n, 1>> : n \in 1..MaxCast}

RECURSIVE Product(_)
Product(shape) == IF shape = <<>> THEN 1 ELSE Head(shape) * Product(Tail(shape))

\* No array is being cast.
CastIdle ==
    /\ cpc = "idle"
    /\ castShape = <<>>
    /\ castData = <<>>
    /\ castDtype = "float32"
    /\ castResult = [shape |-> <<>>, data |-> <<>>]

\* An array of some shape and integer elements, and a target dtype.
CastStart ==
    /\ cpc = "start"
    /\ castShape \in CastShapes
    /\ castData \in UNION {[1..n -> CastValues] : n \in 1..MaxCast}
    /\ Len(castData) = Product(castShape)
    /\ castDtype \in {"uint8", "int32", "float32"}
    /\ castResult = [shape |-> <<>>, data |-> <<>>]

\* astype(dtype): a new array with the same shape and one converted element
\* for each element of this.data.
CastAsType ==
    /\ cpc = "start"
    /\ castResult' = [shape |-> castShape,
                      data |-> [i \in 1..Len(castData) |->
                                  astypeElement(castDtype, castData[i])]]
    /\ cpc' = "done"
    /\ UNCHANGED <<castShape, castData, castDtype>>


(***************************************************************************)
(* fixMaxPoolForWebGPU (base.ts 449-506) and its call in initialize()      *)
(* (lines 127-138).  A buffer is the sequence of its bytes; the code's     *)
(* index i is element i + 1 here.                                          *)
(***************************************************************************)

\* new TextEncoder().encode("ceil_mode").
ceilModePattern == <<99, 101, 105, 108, 95, 109, 111, 100, 101>>

\* Lines 465-471: the pattern starts at index i.
patternFound(modifiedBytes, i) ==
    \A j \in 0..(Len(ceilModePattern) - 1) :
        i + j < Len(modifiedBytes) /\ modifiedBytes[i + j + 1] = ceilModePattern[j + 1]

\* Lines 481-485: index k holds 0x08, 0x10 or 0x18 and index k + 1 holds 0x01.
IsSetAttribute(modifiedBytes, k) ==
    /\ k < Len(modifiedBytes) - 1
    /\ modifiedBytes[k + 1] \in {8, 16, 24}
    /\ modifiedBytes[k + 2] = 1

\* A variant of ToggleAfter that clears the value of every attribute found
\* in the window.
ToggleAllAfter(modifiedBytes, i) ==
    [n \in 1..Len(modifiedBytes) |->
        IF \E k \in (i + 9)..(i + 28) : IsSetAttribute(modifiedBytes, k) /\ n = k + 2
          THEN 0 ELSE modifiedBytes[n]]

\* Lines 475-492: the first attribute with value 1 among the 20 indexes
\* after the pattern has its value cleared.
ToggleAfter(modifiedBytes, i) ==
    LET ks == {k \in (i + Len(ceilModePattern))..(i + Len(ceilModePattern) + 19) :
                  IsSetAttribute(modifiedBytes, k)}
    IN  IF ks = {} THEN modifiedBytes
        ELSE LET k == CHOOSE m \in ks : \A u \in ks : m <= u
             IN  [modifiedBytes EXCEPT ![k + 2] = 0]

\* Lines 460-494: the scan from index i on.
RECURSIVE FixFrom(_, _)
FixFrom(modifiedBytes, i) ==
    IF i >= Len(modifiedBytes) - Len(ceilModePattern) - 10 THEN modifiedBytes
    ELSE IF patternFound(modifiedBytes, i)
           THEN FixFrom(ToggleAfter(modifiedBytes, i), i + 1)
           ELSE FixFrom(modifiedBytes, i + 1)

\* fixMaxPoolForWebGPU: modifiedBytes is a copy of the input (line 454), so
\* the input keeps its bytes; the copy is scanned and returned.
fixMaxPoolForWebGPU(modelBuffer) ==
    [input |-> modelBuffer, output |-> FixFrom(modelBuffer, 0)]

\* Lines 128-133: webgpu is among the execution providers.
isUsingWebGPU(providers) == \E n \in 1..Len(providers) : providers[n] = "webgpu"

\* Pieces of a serialized graph: the pattern, attributes with value 1 and 0,
\* single bytes, and runs of other bytes.
Chunks ==
    {ceilModePattern, <<8, 1>>, <<16, 1>>, <<24, 1>>, <<8, 0>>, <<1>>, <<32, 1>>,
     <<42, 42, 42, 42, 42, 42, 42, 42, 42>>,
     <<42, 42, 42, 42, 42, 42, 42, 42, 42, 42, 42, 42, 42, 42, 42, 42, 42, 42>>}

RECURSIVE Concat(_)
Concat(chunks) == IF chunks = <<>> THEN <<>> ELSE Head(chunks) \o Concat(Tail(chunks))

\* The buffers made of at most MaxChunks pieces.
ModelBuffers == {Concat(cs) : cs \in UNION {[1..n -> Chunks] : n \in 0..MaxChunks}}

\* No graph is being patched.
PatchIdle ==
    /\ xpc = "idle"
    /\ executionProviders = <<"cpu">>
    /\ fetchedBuffer = <<>>
    /\ modelArrayBuffer = <<>>

\* initialize() has the model bytes (line 126); the constructor set the
\* providers to webgpu and cpu, or to cpu alone (lines 34-45).
PatchStart ==
    /\ xpc = "loaded"
    /\ executionProviders \in {<<"webgpu", "cpu">>, <<"cpu">>}
    /\ fetchedBuffer \in ModelBuffers
    /\ modelArrayBuffer = fetchedBuffer

\* Lines 127-138: the patch, when webgpu is used.
PatchApply ==
    /\ xpc = "loaded"
    /\ IF isUsingWebGPU(executionProviders)
         THEN LET r == fixMaxPoolForWebGPU(modelArrayBuffer)
              IN  /\ modelArrayBuffer' = r.output
                  /\ fetchedBuffer' = r.input
         ELSE UNCHANGED <<modelArrayBuffer, fetchedBuffer>>
    /\ xpc' = "patched"
    /\ UNCHANGED executionProviders

\* Lines 141-144: InferenceSession.create(modelArrayBuffer, ...) is issued.
PatchCreate ==
    /\ xpc = "patched"
    /\ xpc' = "create"
    /\ UNCHANGED <<executionProviders, fetchedBuffer, modelArrayBuffer>>

(***************************************************************************)
(* BytesIO (libraries/io.ts).  this.view is a Uint8Array over the whole of *)
(* this.buffer, so the two have the same length and the same bytes; a      *)
(* BytesIO is [view, position] with view the sequence of those bytes.      *)
(***************************************************************************)
Min(a, b) == IF a <= b THEN a ELSE b

\* new BytesIO(): lines 21-24 and line 8.
NewBytesIO == [view |-> <<>>, position |-> 0]

\* getSize(): lines 172-174.
getSize(b) == Len(b.view)

\* writeBytes(data): lines 57-71.  A new ArrayBuffer is zero-filled.
writeBytes(b, bytes) ==
    LET newSize == b.position + Len(bytes)
        newCapacity == Max(newSize, Len(b.view) * 2)
        newView == IF newSize > Len(b.view)
                     THEN [k \in 1..newCapacity |->
                             IF k <= Len(b.view) THEN b.view[k] ELSE 0]
                     ELSE b.view
    IN  [view |-> [k \in 1..Len(newView) |->
                     IF k > b.position /\ k <= newSize THEN bytes[k - b.position]
                     ELSE newView[k]],
         position |-> newSize]

\* getvalue(): lines 164-167.
getvalue(b) == SubSeq(b.view, 1, getSize(b))

\* seek(position) with whence 0: lines 131-151.
seek(b, newPos) == [b EXCEPT !.position = Max(0, Min(newPos, getSize(b)))]

\* read() without a size: lines 79-84.
read(b) ==
    [result |-> SubSeq(b.view, b.position + 1, getSize(b)),
     bio |-> [b EXCEPT !.position = getSize(b)]]

\* The byte sequences a caller writes.
WriteBytes == {0, 255}
ByteSeqs == UNION {[1..n -> WriteBytes] : n \in 0..MaxWriteLen}

IoIdle ==
    /\ iopc = "idle"
    /\ bio = NewBytesIO
    /\ writes = <<>>
    /\ gotValue = <<>>
    /\ readBytes = <<>>

\* A BytesIO was made with no initial data, as in remove (bg.ts line 987).
IoStart ==
    /\ iopc = "open"
    /\ bio = NewBytesIO
    /\ writes = <<>>
    /\ gotValue = <<>>
    /\ readBytes = <<>>

\* write(data) with a Uint8Array: lines 31-44.
IoWrite ==
    /\ iopc = "open"
    /\ Len(writes) < MaxWrites
    /\ \E bytes \in ByteSeqs :
         /\ bio' = writeBytes(bio, bytes)
         /\ writes' = Append(writes, [via |-> "write", bytes |-> bytes])
    /\ UNCHANGED <<iopc, gotValue, readBytes>>

\* writeBlob(blob), from the call to the resolution of its promise: lines
\* 49-55.
IoWriteBlob ==
    /\ iopc = "open"
    /\ Len(writes) < MaxWrites
    /\ \E bytes \in ByteSeqs :
         /\ bio' = writeBytes(bio, bytes)
         /\ writes' = Append(writes, [via |-> "writeBlob", bytes |-> bytes])
    /\ UNCHANGED <<iopc, gotValue, readBytes>>

\* getvalue() after the writes.
IoGetValue ==
    /\ iopc = "open"
    /\ gotValue' = getvalue(bio)
    /\ iopc' = "got"
    /\ UNCHANGED <<bio, writes, readBytes>>

\* bio.seek(0); bio.read(): bg.ts lines 993-994.
IoSeekRead ==
    /\ iopc = "got"
    /\ LET r == read(seek(bio, 0))
       IN  /\ readBytes' = r.result
           /\ bio' = r.bio
    /\ iopc' = "read"
    /\ UNCHANGED <<writes, gotValue>>

\* No library function is being computed on its own.
LibIdle == CastIdle /\ PatchIdle /\ IoIdle

NoValue == [isList |-> FALSE, items |-> <<>>]

RemoveIdle ==
    /\ mode = "idle"
    /\ data = <<>>
    /\ isBatch = FALSE
    /\ alpha_matting = FALSE
    /\ only_mask = FALSE
    /\ post_process_mask = FALSE
    /\ force_return_bytes = FALSE
    /\ mattingArgs = [foreground_threshold |-> 240, background_threshold |-> 10,
                      erode_size |-> Num(10, 1)]
    /\ session = "unset"
    /\ rpc = "idle"
    /\ ri = 1
    /\ images = <<>>
    /\ returnTypes = <<>>
    /\ preprocessedInputs = <<>>
    /\ allPredictions = <<>>
    /\ pbResults = <<>>
    /\ allMasks = <<>>
    /\ allImageMaskPairs = <<>>
    /\ preprocessedPairs = <<>>
    /\ alphaResults = <<>>
    /\ finalCutouts = <<>>
    /\ allCutouts = <<>>
    /\ results = <<>>
    /\ retval = NoValue
    /\ error = "none"

\* No remove_video call is running; the ffmpeg file system is empty or holds
\* what an earlier remove_video call on a video of p frames left.
VideoIdle ==
    /\ vpc = "idle"
    /\ videoFrames = 0
    /\ \E p \in 0..MaxPrev :
         /\ fsFrames = [k \in 1..p |-> -k]
         /\ fsOut = [k \in 1..p |-> StaleOut(k)]
    /\ extractedFrameNames = <<>>
    /\ frameIndex = 0
    /\ pushedFrameCount = 0
    /\ isReady = FALSE
    /\ allFrames = <<>>
    /\ processedFrames = <<>>
    /\ vi = 1
    /\ exported = <<>>
    /\ onProgress = FALSE
    /\ progressCalls = <<>>

SessIdle ==
    /\ initialized = FALSE
    /\ inner_session = 0
    /\ cache = "absent"
    /\ graphs = 0
    /\ callKind = [c \in Callers |-> "none"]
    /\ callPc = [c \in Callers |-> "idle"]
    /\ fetchCalls = [c \in Callers |-> 0]
    /\ createCalls = [c \in Callers |-> 0]
    /\ settled = [c \in Callers |-> "none"]

Init == SessIdle /\ RemoveIdle /\ VideoIdle /\ TrimapIdle /\ NumIdle /\ PostIdle /\ LibIdle

Next ==
    \/ CallRemove /\ UNCHANGED <<sessVars, videoVars, fnVars>>
    \/ CallRemoveVideo /\ UNCHANGED <<sessVars, fnVars>>
    \/ VideoSession /\ UNCHANGED <<sessVars, fnVars>>
    \/ VideoInit /\ UNCHANGED <<sessVars, fnVars>>
    \/ VideoNext /\ UNCHANGED <<sessVars, fnVars>>
    \/ VideoRemoveDone /\ UNCHANGED <<sessVars, fnVars>>
    \/ VideoPush /\ UNCHANGED <<sessVars, fnVars>>
    \/ VideoExport /\ UNCHANGED <<sessVars, fnVars>>
    \/ DecodeItem /\ UNCHANGED <<sessVars, videoVars, fnVars>>
    \/ AcquireSession /\ UNCHANGED <<sessVars, videoVars, fnVars>>
    \/ PredictBatchEnter /\ UNCHANGED <<sessVars, videoVars, fnVars>>
    \/ PbNormalize /\ UNCHANGED <<sessVars, videoVars, fnVars>>
    \/ PbRunIssue /\ UNCHANGED <<sessVars, videoVars, fnVars>>
    \/ PbRunSettle /\ UNCHANGED <<sessVars, videoVars, fnVars>>
    \/ PbMask /\ UNCHANGED <<sessVars, videoVars, fnVars>>
    \/ AmPair /\ UNCHANGED <<sessVars, videoVars, fnVars>>
    \/ AmPreprocess /\ UNCHANGED <<sessVars, videoVars, fnVars>>
    \/ AmEstimateIssue /\ UNCHANGED <<sessVars, videoVars, fnVars>>
    \/ AmEstimateSettle /\ UNCHANGED <<sessVars, videoVars, fnVars>>
    \/ AmCutout /\ UNCHANGED <<sessVars, videoVars, fnVars>>
    \/ PlCut /\ UNCHANGED <<sessVars, videoVars, fnVars>>
    \/ EncodeItem /\ UNCHANGED <<sessVars, videoVars, fnVars>>

Spec == Init /\ [][Next]_vars

(***************************************************************************)
(* The trimap construction on its own: every mask, threshold pair and      *)
(* erode size of the bounded sets.                                         *)
(***************************************************************************)
TrimapInit ==
    SessIdle /\ RemoveIdle /\ VideoIdle /\ fsFrames = <<>> /\ TrimapStart /\ NumIdle /\ PostIdle /\ LibIdle

TrimapNext ==
    \/ TrimapAsArray /\ UNCHANGED <<sessVars, removeVars, videoVars, numVars, postVars, libVars>>
    \/ TrimapThreshold /\ UNCHANGED <<sessVars, removeVars, videoVars, numVars, postVars, libVars>>
    \/ TrimapErode /\ UNCHANGED <<sessVars, removeVars, videoVars, numVars, postVars, libVars>>
    \/ TrimapFill /\ UNCHANGED <<sessVars, removeVars, videoVars, numVars, postVars, libVars>>
    \/ TrimapSetForeground /\ UNCHANGED <<sessVars, removeVars, videoVars, numVars, postVars, libVars>>
    \/ TrimapSetBackground /\ UNCHANGED <<sessVars, removeVars, videoVars, numVars, postVars, libVars>>

SpecTrimap == TrimapInit /\ [][TrimapNext]_vars

(***************************************************************************)
(* The mask and composite numbers on their own: every model output and     *)
(* alpha matte element of the bounded sets.                                *)
(***************************************************************************)
NumInit ==
    SessIdle /\ RemoveIdle /\ VideoIdle /\ fsFrames = <<>> /\ TrimapIdle /\ NumStart /\ PostIdle /\ LibIdle

NumNext ==
    \/ NumProcessOutput /\ UNCHANGED <<sessVars, removeVars, videoVars, trimapVars, postVars, libVars>>
    \/ NumMaskFromArray /\ UNCHANGED <<sessVars, removeVars, videoVars, trimapVars, postVars, libVars>>
    \/ NumStack /\ UNCHANGED <<sessVars, removeVars, videoVars, trimapVars, postVars, libVars>>
    \/ NumMultiply /\ UNCHANGED <<sessVars, removeVars, videoVars, trimapVars, postVars, libVars>>
    \/ NumClip /\ UNCHANGED <<sessVars, removeVars, videoVars, trimapVars, postVars, libVars>>
    \/ NumAsType /\ UNCHANGED <<sessVars, removeVars, videoVars, trimapVars, postVars, libVars>>
    \/ NumFromArray /\ UNCHANGED <<sessVars, removeVars, videoVars, trimapVars, postVars, libVars>>

SpecNum == NumInit /\ [][NumNext]_vars

(***************************************************************************)
(* post_process on its own: every mask of the bounded sets.                *)
(***************************************************************************)
PostInit ==
    /\ SessIdle /\ RemoveIdle /\ VideoIdle /\ fsFrames = <<>>
    /\ TrimapIdle /\ NumIdle /\ PostStart /\ LibIdle

PostNext ==
    \/ PostAsArray /\ UNCHANGED <<sessVars, removeVars, videoVars, trimapVars, numVars, libVars>>
    \/ PostOpen /\ UNCHANGED <<sessVars, removeVars, videoVars, trimapVars, numVars, libVars>>
    \/ PostBlur /\ UNCHANGED <<sessVars, removeVars, videoVars, trimapVars, numVars, libVars>>
    \/ PostWhere /\ UNCHANGED <<sessVars, removeVars, videoVars, trimapVars, numVars, libVars>>
    \/ PostAgain /\ UNCHANGED <<sessVars, removeVars, videoVars, trimapVars, numVars, libVars>>

SpecPost == PostInit /\ [][PostNext]_vars

(***************************************************************************)
(* astype on its own: every array of the bounded sets.                     *)
(***************************************************************************)
CastInit ==
    /\ SessIdle /\ RemoveIdle /\ VideoIdle /\ fsFrames = <<>>
    /\ TrimapIdle /\ NumIdle /\ PostIdle /\ CastStart /\ PatchIdle /\ IoIdle

CastNext ==
    \/ CastAsType /\ UNCHANGED <<sessVars, removeVars, videoVars, trimapVars, numVars, postVars, patchVars, ioVars>>

SpecCast == CastInit /\ [][CastNext]_vars

(***************************************************************************)
(* The graph patch on its own: every buffer of the bounded sets.           *)
(***************************************************************************)
PatchInit ==
    /\ SessIdle /\ RemoveIdle /\ VideoIdle /\ fsFrames = <<>>
    /\ TrimapIdle /\ NumIdle /\ PostIdle /\ CastIdle /\ PatchStart /\ IoIdle

PatchNext ==
    \/ PatchApply /\ UNCHANGED <<sessVars, removeVars, videoVars, trimapVars, numVars, postVars, castVars, ioVars>>
    \/ PatchCreate /\ UNCHANGED <<sessVars, removeVars, videoVars, trimapVars, numVars, postVars, castVars, ioVars>>

SpecPatch == PatchInit /\ [][PatchNext]_vars

(***************************************************************************)
(* One BytesIO on its own: every sequence of writes of the bounded sets,   *)
(* then getvalue() and seek(0), read().                                    *)
(***************************************************************************)
IoInit ==
    /\ SessIdle /\ RemoveIdle /\ VideoIdle /\ fsFrames = <<>>
    /\ TrimapIdle /\ NumIdle /\ PostIdle /\ CastIdle /\ PatchIdle /\ IoStart

IoNext ==
    \/ IoWrite /\ UNCHANGED <<sessVars, removeVars, videoVars, trimapVars, numVars, postVars, castVars, patchVars>>
    \/ IoWriteBlob /\ UNCHANGED <<sessVars, removeVars, videoVars, trimapVars, numVars, postVars, castVars, patchVars>>
    \/ IoGetValue /\ UNCHANGED <<sessVars, removeVars, videoVars, trimapVars, numVars, postVars, castVars, patchVars>>
    \/ IoSeekRead /\ UNCHANGED <<sessVars, removeVars, videoVars, trimapVars, numVars, postVars, castVars, patchVars>>

SpecIo == IoInit /\ [][IoNext]_vars

(***************************************************************************)
(* Properties of remove, predict_batch and remove_video, under Spec.       *)
(***************************************************************************)

\* The representation an input item has at call time.
RepOf(kind) ==
    IF kind = "bytes" THEN "bytes" ELSE IF kind = "pil" THEN "pil" ELSE "ndarray"

\* C1: a remove call that resolves returns a list exactly when it was given
\* a list; for a list of N >= 1 items the result has N items and item i is
\* derived from input i; for a single item the result is that item's output.
C1_ArityMirrorsInput ==
    (rpc = "resolved" /\ Len(data) >= 1) =>
        /\ retval.isList = isBatch
        /\ Len(retval.items) = Len(data)
        /\ (~isBatch) => Len(retval.items) = 1
        /\ \A i \in 1..Len(data) : retval.items[i].pic.src = data[i].id

C1_Witness ==
    /\ mode = "remove"
    /\ rpc = "resolved"
    /\ isBatch
    /\ Len(data) = 2
    /\ alpha_matting
    /\ retval.items[2].pic.src = data[2].id

\* C2: every output has the representation its input item had at call time,
\* in every processing mode, and with force_return_bytes remove returns bytes
\* for every item, be it bytes, an image buffer or a numeric buffer (so it
\* does not reject such an item with a TypeError).
C2_OutputRepresentation ==
    /\ rpc = "resolved" =>
         \A i \in 1..Len(retval.items) :
             retval.items[i].rep =
                 IF force_return_bytes THEN "bytes" ELSE RepOf(data[i].kind)
    /\ (force_return_bytes /\ \A i \in 1..Len(data) : data[i].kind \in SupportedKinds) =>
         error # "type_error"

\* C3: with only_mask, remove returns for each image its segmentation mask,
\* post-processed when post_process_mask is set, with alpha_matting as well
\* as without: never a matting composite.
C3_OnlyMaskReturnsMask ==
    (rpc = "resolved" /\ only_mask) =>
        \A i \in 1..Len(retval.items) :
            /\ retval.items[i].pic.what = "mask"
            /\ retval.items[i].pic.src = data[i].id
            /\ retval.items[i].pic.pp = post_process_mask

\* C4: a failure of the alpha estimator for a pair never makes remove
\* reject: the step that follows the estimator's settling is never a
\* rejection of remove.
C4_EstimatorFailureRecovered ==
    [][rpc = "am_await" => rpc' # "rejected"]_vars

\* C11: a remove call on a batch with an item that is neither bytes, an
\* image buffer nor a numeric buffer never resolves and returns nothing,
\* whatever the options: it stops in the decode loop.
C11_UnsupportedItemRejects ==
    (\E i \in 1..Len(data) : data[i].kind \notin SupportedKinds) =>
        /\ rpc \in {"idle", "decode", "rejected"}
        /\ retval = NoValue

\* normalize_batch lines 215-217: an empty batch throws.
NormalizeBatchThrows(imgs) == Len(imgs) = 0

\* C12: an empty batch is rejected: normalize_batch throws on it, and a
\* remove or predict_batch call on zero images never gets past the entry of
\* predict_batch (it never goes on to the later phases or resolves).
C12_EmptyBatchRejected ==
    /\ NormalizeBatchThrows(<<>>)
    /\ (mode # "idle" /\ Len(data) = 0) =>
          rpc \in {"idle", "decode", "pb_enter", "rejected"}

\* C20: remove has no side effect on its inputs: at every point of a call
\* and after it, each item the caller passed still has the alpha channel it
\* had when the call was made (its own, with no mask written into it).
C20_InputsUnchanged ==
    mode # "idle" => \A i \in 1..Len(data) : data[i].alpha = <<>>

\* predict_batch has returned to remove.
PbReturned ==
    rpc \in {"am_pair", "am_pre", "am_est", "am_await", "am_cut", "pl_cut", "encode",
             "resolved"}

\* C8: predict_batch on N images returns N mask lists; every mask of entry i
\* comes from the forward pass of image i and has the size of image i.
C8_MasksMatchImages ==
    PbReturned =>
        /\ Len(allMasks) = Len(images)
        /\ \A i \in 1..Len(allMasks) :
             /\ Len(allMasks[i]) >= 1
             /\ \A j \in 1..Len(allMasks[i]) :
                  /\ allMasks[i][j].what = "mask"
                  /\ allMasks[i][j].src = images[i].src
                  /\ allMasks[i][j].size = images[i].size

C8_Witness ==
    /\ PbReturned
    /\ Len(images) = 2
    /\ images[1].size # images[2].size
    /\ allMasks[2][1].size = images[2].size

\* C9: the phases of remove never overlap: a forward pass is prepared or
\* issued only when every input is decoded; post-processing, matting and
\* compositing start only when every forward pass and every mask is done;
\* a result is encoded only when every image has its cutouts.
C9_PhasesAreStrict ==
    /\ (Len(preprocessedInputs) > 0 \/ rpc = "pb_await") =>
          Len(images) = Len(data)
    /\ (Len(allImageMaskPairs) > 0 \/ Len(allCutouts) > 0) =>
          /\ Len(images) = Len(data)
          /\ Len(allPredictions) = Len(images)
          /\ Len(pbResults) = Len(images)
    /\ Len(results) > 0 =>
          /\ Len(allCutouts) = Len(images)
          /\ Len(pbResults) = Len(images)

C9_Witness ==
    /\ rpc = "encode"
    /\ Len(data) = 2
    /\ Len(results) = 1
    /\ Len(allCutouts) = 2

\* C23: within a predict_batch call every image is normalized before the
\* first forward pass is issued; the forward pass in flight is the one of the
\* next index, the predictions collected so far being those of the images
\* before it, in order; and no prediction is decoded into a mask before the
\* last forward pass has completed.
C23_PredictBatchPhases ==
    /\ (rpc \in {"pb_run", "pb_await"} \/ Len(allPredictions) > 0) =>
          /\ Len(preprocessedInputs) = Len(images)
          /\ \A k \in 1..Len(images) : preprocessedInputs[k].inputs.of = images[k].src
    /\ rpc \in {"pb_run", "pb_await"} =>
          /\ ri = Len(allPredictions) + 1
          /\ ri <= Len(images)
          /\ Len(pbResults) = 0
    /\ \A k \in 1..Len(allPredictions) : allPredictions[k].pred.of = images[k].src
    /\ Len(pbResults) > 0 =>
          /\ Len(allPredictions) = Len(images)
          /\ \A k \in 1..Len(pbResults) : pbResults[k][1].src = images[k].src

C23_Witness ==
    /\ rpc = "pb_mask"
    /\ Len(images) = 2
    /\ images[1].src # images[2].src
    /\ Len(allPredictions) = 2
    /\ Len(pbResults) = 1

\* C26: when remove_video was given a progress callback, the callback has
\* been called once for each frame extracted so far and once for each
\* processed frame pushed so far.
C26_ProgressPerFrame ==
    (onProgress /\ vpc \in {"extract", "remove", "push", "exporting", "resolved"}) =>
        Len(progressCalls) = Len(allFrames) + pushedFrameCount

\* C27: with alpha matting, what remove ends with does not depend on the
\* foreground threshold, the background threshold or the erode size: when it
\* resolves, every result is the composite of the image with the matte the
\* estimator computes from the image alone, and when it rejects, the cause is
\* not one of these arguments.
C27_MattingArgsIgnored ==
    (alpha_matting /\ rpc \in {"resolved", "rejected"}) =>
        IF rpc = "resolved"
          THEN /\ Len(results) = Len(images)
               /\ \A i \in 1..Len(images) :
                     results[i] =
                        Encoded(returnTypes[i],
                                ConcatV([j \in 1..Len(allMasks[i]) |->
                                           Pic("matte", images[i].src, images[i].size, FALSE,
                                               <<Pic("alpha", images[i].src, images[i].size,
                                                     FALSE, <<>>)>>)]))
          ELSE error # "range_error"

\* C29: remove_video on a video from which ffmpeg extracts no frame never
\* gets to the export and never resolves with a video: exportFinalVideo is
\* not passed and nothing is exported.
C29_NoFramesNoVideo ==
    (mode = "video" /\ videoFrames = 0) =>
        /\ vpc \notin {"exporting", "resolved"}
        /\ exported = <<>>

\* C30: the frames next() yields are the frames of the processor's own input
\* video, in order (all of them once next() has returned null), and the
\* exported video is made of exactly the frames pushed to this processor,
\* whatever an earlier processor left in the file system of the shared ffmpeg
\* instance.
C30_OwnFramesOnly ==
    /\ Len(allFrames) <= videoFrames
    /\ \A k \in 1..Len(allFrames) : allFrames[k] = k
    /\ vpc \in {"remove", "push", "exporting", "resolved"} => Len(allFrames) = videoFrames
    /\ vpc = "resolved" =>
          /\ Len(exported) = pushedFrameCount
          /\ exported = processedFrames

\* C10: remove_video exports only when every frame of the source has been
\* extracted, processed and pushed, and the k-th push is the processed
\* output of the k-th extracted frame, which for k up to the number of
\* frames of the source is frame k of the source.
C10_ExportAfterOrderedPushes ==
    /\ vpc \in {"exporting", "resolved"} =>
          /\ frameIndex = Len(extractedFrameNames)
          /\ Len(allFrames) >= videoFrames
          /\ Len(processedFrames) = Len(allFrames)
          /\ pushedFrameCount = Len(allFrames)
    /\ \A k \in 1..pushedFrameCount :
          /\ fsOut[k] = processedFrames[k]
          /\ fsOut[k].pic.src = allFrames[k]
          /\ k <= videoFrames => allFrames[k] = k

C10_Witness ==
    /\ vpc = "resolved"
    /\ videoFrames = 2
    /\ pushedFrameCount = 2
    /\ exported[2].pic.src = 2


(***************************************************************************)
(* Properties of the trimap construction, under SpecTrimap.                *)
(***************************************************************************)

\* C13: in a finished trimap every element that both eroded sets claim has
\* the value 255: the foreground is written last and wins.
C13_ForegroundWinsTies ==
    tpc = "done" =>
        \A i \in DOMAIN trimap :
            (is_foreground_eroded[i] > 0 /\ is_background_eroded[i] > 0) =>
                trimap[i] = 255

\* The mask has the same gray value v at every pixel.
UniformMask(v) == \A q \in DOMAIN maskGray : maskGray[q] = v

\* C14: every element of a finished trimap is 0, 128 or 255; it is 255 only
\* where the mask (the element of its array, and the gray value of the
\* element's pixel) is strictly above the foreground threshold and 0 only
\* where it is strictly below the background threshold; a mask uniformly 128
\* under the thresholds 240 and 10 gives a trimap that is 128 everywhere.
C14_TrimapValues ==
    tpc = "done" =>
        /\ \A i \in DOMAIN trimap :
             /\ trimap[i] \in {0, 128, 255}
             /\ trimap[i] = 255 =>
                  /\ mask_array[i] > alpha_matting_foreground_threshold
                  /\ maskGray[i \div 4] > alpha_matting_foreground_threshold
             /\ trimap[i] = 0 =>
                  /\ mask_array[i] < alpha_matting_background_threshold
                  /\ maskGray[i \div 4] < alpha_matting_background_threshold
        /\ (/\ UniformMask(128)
            /\ alpha_matting_foreground_threshold = 240
            /\ alpha_matting_background_threshold = 10) =>
               \A i \in DOMAIN trimap : trimap[i] = 128

C14_Witness ==
    /\ tpc = "done"
    /\ alpha_matting_foreground_threshold = 240
    /\ alpha_matting_background_threshold = 10
    /\ \E i \in DOMAIN trimap : trimap[i] = 255
    /\ \E i \in DOMAIN trimap : trimap[i] = 128

\* C15: with erode size 0 the erosion removes nothing, and a 4x4 mask that
\* is 255 everywhere gives, under the thresholds 240 and 10, a trimap that is
\* 255 at each of its pixels.
C15_ZeroErodeIsIdentity ==
    (tpc = "done" /\ alpha_matting_erode_size = 0) =>
        /\ is_foreground_eroded = is_foreground
        /\ is_background_eroded = is_background
        /\ (/\ maskShape = <<4, 4>>
            /\ UniformMask(255)
            /\ alpha_matting_foreground_threshold = 240
            /\ alpha_matting_background_threshold = 10) =>
               \A i \in DOMAIN trimap : trimap[i] = 255

\* The erosion of a set by a centred size x size element: an element
\* survives exactly when it and all the elements the structuring element
\* covers are set (elements outside the array count as border_value).
ErosionBySize(input, height, width, size, border_value) ==
    LET lo == -(size \div 2)
        hi == size - 1 - (size \div 2)
        value(ny, nx) ==
            IF ny < 0 \/ ny >= height \/ nx < 0 \/ nx >= width
              THEN border_value ELSE input[ny * width + nx]
    IN  [i \in DOMAIN input |->
            IF /\ i < height * width
               /\ \A dy \in lo..hi, dx \in lo..hi :
                     value((i \div width) + dy, (i % width) + dx) # 0
              THEN 1 ELSE 0]

\* C16: for an erode size of 1 or more, the eroded sets are the erosions of
\* the foreground and background sets by an element of that size, on the
\* height * width elements the erosion runs over.
C16_ErosionUsesErodeSize ==
    (tpc = "done" /\ alpha_matting_erode_size >= 1) =>
        \A i \in 0..(maskShape[1] * maskShape[2] - 1) :
            /\ is_foreground_eroded[i] =
                  ErosionBySize(is_foreground, maskShape[1], maskShape[2],
                                alpha_matting_erode_size, 0)[i]
            /\ is_background_eroded[i] =
                  ErosionBySize(is_background, maskShape[1], maskShape[2],
                                alpha_matting_erode_size, 1)[i]

\* The eroded foreground and background sets for each erode size.
ErodedForeground ==
    [k \in 0..MaxErode |->
        binary_erosion(is_foreground, maskShape[1], maskShape[2], StructureOf(k), 0)]

ErodedBackground ==
    [k \in 0..MaxErode |->
        binary_erosion(is_background, maskShape[1], maskShape[2], StructureOf(k), 1)]

\* C17: for erode sizes a <= b the eroded set for b is contained in the one
\* for a, for the foreground and for the background, and every eroded set is
\* contained in the set it was eroded from (stated where the erosion has
\* just run).
C17_ErosionShrinks ==
    tpc = "fill" =>
        LET fg == ErodedForeground
            bg == ErodedBackground
        IN  /\ \A a \in 0..MaxErode, b \in 0..MaxErode :
                 a <= b =>
                   \A i \in DOMAIN is_foreground :
                       /\ fg[b][i] > 0 => fg[a][i] > 0
                       /\ bg[b][i] > 0 => bg[a][i] > 0
            /\ \A k \in 0..MaxErode :
                 \A i \in DOMAIN is_foreground :
                     /\ fg[k][i] > 0 => is_foreground[i] > 0
                     /\ bg[k][i] > 0 => is_background[i] > 0
            /\ is_foreground_eroded = fg[alpha_matting_erode_size]
            /\ is_background_eroded = bg[alpha_matting_erode_size]

C17_Witness ==
    /\ tpc = "fill"
    /\ alpha_matting_erode_size = 2
    /\ \E i \in DOMAIN is_foreground : is_foreground_eroded[i] > 0
    /\ \E i \in DOMAIN is_foreground :
          is_foreground[i] > 0 /\ is_foreground_eroded[i] = 0
    /\ \E i \in DOMAIN is_background : is_background_eroded[i] > 0

\* The element of pixel <<y, x>> (its first channel) in an array of shape
\* [height, width, 4].
PixelOf(a, y, x) == a[(y * maskShape[2] + x) * 4]

\* The pixels of the mask on its border, and the pixels of the mask within
\* the 3 by 3 neighbourhood of a pixel.
BorderPixels ==
    {p \in (0..(maskShape[1] - 1)) \X (0..(maskShape[2] - 1)) :
        p[1] = 0 \/ p[1] = maskShape[1] - 1 \/ p[2] = 0 \/ p[2] = maskShape[2] - 1}

NeighboursOf(p) ==
    {q \in (0..(maskShape[1] - 1)) \X (0..(maskShape[2] - 1)) :
        q[1] \in (p[1] - 1)..(p[1] + 1) /\ q[2] \in (p[2] - 1)..(p[2] + 1)}

\* C24: with a 3 by 3 structuring element (erode size 3), a pixel on the
\* border of the image is never in the eroded foreground, and a pixel on the
\* border all of whose neighbours inside the image are background is in the
\* eroded background.
C24_BorderPolicy ==
    (tpc = "fill" /\ alpha_matting_erode_size = 3) =>
        \A p \in BorderPixels :
            /\ PixelOf(is_foreground_eroded, p[1], p[2]) = 0
            /\ (\A q \in NeighboursOf(p) : PixelOf(is_background, q[1], q[2]) > 0) =>
                  PixelOf(is_background_eroded, p[1], p[2]) > 0

(***************************************************************************)
(* Properties of the mask and composite numbers, under SpecNum.            *)
(***************************************************************************)

\* x is an integer from 0 to 255.
IsByte(x) == IsNum(x) /\ x.d = 1 /\ x.n \in 0..255

\* C18: every element of the mask data and of the mask picture, the
\* converted cutout element and the alpha value of the composited cutout
\* are integers from 0 to 255, never NaN, for every model output (constant,
\* infinite or NaN values included) and every alpha matte value (out of
\* range, infinite or NaN included).
C18_AlphaIsByte ==
    /\ \A i \in 1..Len(maskData) : IsByte(maskData[i])
    /\ \A i \in 1..Len(maskPixels) : IsByte(maskPixels[i])
    /\ npc \in {"fromarray", "done"} => IsByte(cutoutValue)
    /\ npc = "done" => IsByte(cutoutPixel)

C18_Witness ==
    /\ npc = "done"
    /\ IsNaN(alphaValue)
    /\ Len(pred) = 2
    /\ IsNaN(pred[1])
    /\ pred[2] = PosInf
    /\ IsByte(cutoutPixel)
    /\ IsByte(maskPixels[1])

(***************************************************************************)
(* Properties of post_process, under SpecPost.                             *)
(***************************************************************************)

\* C19: the mask post_process returns has only the values 0 and 255, and
\* post_process applied to that mask returns the same mask, element for
\* element.
C19_PostProcessIdempotent ==
    /\ ppc \in {"returned", "again"} =>
          \A i \in DOMAIN processed_mask : processed_mask[i] \in {0, 255}
    /\ ppc = "again" => processed_again = processed_mask

SessInit ==
    /\ initialized = FALSE
    /\ inner_session = 0
    /\ cache \in {"absent", "malformed", "fresh", "expired"}
    /\ graphs = 0
    /\ callKind = [c \in Callers |-> "none"]
    /\ callPc = [c \in Callers |-> "idle"]
    /\ fetchCalls = [c \in Callers |-> 0]
    /\ createCalls = [c \in Callers |-> 0]
    /\ settled = [c \in Callers |-> "none"]
    /\ RemoveIdle
    /\ VideoIdle
    /\ fsFrames = <<>>
    /\ TrimapIdle
    /\ NumIdle
    /\ PostIdle
    /\ LibIdle

SessNext ==
    \/ \E c \in Callers, k \in CallKinds : CallStart(c, k) /\ UNCHANGED <<removeVars, videoVars, fnVars>>
    \/ \E c \in Callers : CacheLookupDone(c) /\ UNCHANGED <<removeVars, videoVars, fnVars>>
    \/ \E c \in Callers : FetchDone(c) /\ UNCHANGED <<removeVars, videoVars, fnVars>>
    \/ \E c \in Callers : ReadDone(c) /\ UNCHANGED <<removeVars, videoVars, fnVars>>
    \/ \E c \in Callers : StoreDone(c) /\ UNCHANGED <<removeVars, videoVars, fnVars>>
    \/ \E c \in Callers : BuildDone(c) /\ UNCHANGED <<removeVars, videoVars, fnVars>>
    \/ \E c \in Callers : RunDone(c) /\ UNCHANGED <<removeVars, videoVars, fnVars>>
    \/ CacheExpires /\ UNCHANGED <<removeVars, videoVars, fnVars>>

SpecSession == SessInit /\ [][SessNext]_vars

(***************************************************************************)
(* Claims about the session.                                               *)
(***************************************************************************)

\* C5: on a session that is not yet Ready, concurrent initialize / predict /
\* predict_batch calls share one load: at no time are two loads (cache
\* lookup, fetch, graph build) in flight on the same session.
C5_OneLoadInFlight ==
    Cardinality({c \in Callers : callPc[c] \in LoadingPcs}) <= 1

\* C6: once the session is Ready it stays Ready and keeps its graph: no step
\* resets initialized, clears or replaces inner_session, and a call made on a
\* Ready session starts no load.
C6_ReadyIsImmutable ==
    [][initialized =>
         /\ initialized'
         /\ inner_session' = inner_session
         /\ \A c \in Callers :
              callPc[c] = "idle" => callPc'[c] \notin LoadingPcs]_vars

FetchFailures == {"not_ok", "no_body", "network_error"}

C7_Rejects(c) ==
    /\ callPc'[c] = "rejected"
    /\ initialized' = initialized
    /\ inner_session' = inner_session

C21_CacheUse ==
    [][\A c \in Callers :
         /\ (callPc[c] = "lookup" /\ callPc'[c] # "lookup") =>
               /\ callPc'[c] # "rejected"
               /\ callPc'[c] = "build" => (CacheHit(cache) /\ fetchCalls'[c] = 0)
               /\ (CacheHit(cache) /\ settled'[c] = "db_ok") => callPc'[c] = "build"
               /\ callPc'[c] # "build" =>
                     (callPc'[c] = "fetch" /\ fetchCalls'[c] = 1)
         /\ (callPc[c] = "store" /\ callPc'[c] # "store") =>
               /\ callPc'[c] = "build"
               /\ settled'[c] = "db_ok" => cache' = "fresh"]_vars

(***************************************************************************)
(* Properties of astype, under SpecCast.                                    *)
(***************************************************************************)

\* The nearest integer to x that the dtype can hold.
ClampTo(dtype, x) ==
    IF dtype = "uint8" THEN WideMax(WideOf(0), WideMin(WideOf(255), x))
    ELSE IF dtype = "int32" THEN WideMax(Wide(-32768, 0), WideMin(Wide(32767, 65535), x))
    ELSE x

\* C22: astype to uint8 or int32 gives, for each element, the nearest value
\* the target dtype can hold (an in-range value itself, a value below the
\* range its lower bound, a value above the range its upper bound), never a
\* wrapped-around one, and the result has as many elements as the product of
\* its shape.
C22_CastsClamp ==
    cpc = "done" =>
        /\ Len(castResult.data) = Product(castResult.shape)
        /\ castDtype \in {"uint8", "int32"} =>
              \A i \in 1..Len(castData) :
                 castResult.data[i] = ClampTo(castDtype, castData[i])

(***************************************************************************)
(* Properties of the graph patch, under SpecPatch.                         *)
(***************************************************************************)

\* The indexes at which the pattern occurs in a buffer.
Occurrences(b) == {i \in 0..(Len(b) - 1) : patternFound(b, i)}

\* The elements at which two buffers of the same length differ.
Changed(a, b) == {n \in 1..Len(a) : a[n] # b[n]}

\* C25: the buffer handed to InferenceSession.create is the loaded one when
\* webgpu is not among the providers; with webgpu it has the same length,
\* equals the loaded one when the pattern "ceil_mode" does not occur, and
\* differs from it only at bytes that were 0x01 and are now 0x00, each right
\* after a 0x08, 0x10 or 0x18 byte that lies within 20 bytes after an
\* occurrence of the pattern, at most one such byte per occurrence; and the
\* loaded buffer keeps its bytes.
C25_PatchIsNarrow ==
    /\ [](xpc \in {"patched", "create"} =>
            /\ ~isUsingWebGPU(executionProviders) => modelArrayBuffer = fetchedBuffer
            /\ Len(modelArrayBuffer) = Len(fetchedBuffer)
            /\ Occurrences(fetchedBuffer) = {} => modelArrayBuffer = fetchedBuffer
            /\ \A n \in Changed(fetchedBuffer, modelArrayBuffer) :
                  /\ fetchedBuffer[n] = 1
                  /\ modelArrayBuffer[n] = 0
                  /\ n > 1
                  /\ fetchedBuffer[n - 1] \in {8, 16, 24}
                  /\ \E i \in Occurrences(fetchedBuffer) : n - 2 \in (i + 9)..(i + 28)
            /\ Cardinality(Changed(fetchedBuffer, modelArrayBuffer))
                  <= Cardinality(Occurrences(fetchedBuffer)))
    /\ [][fetchedBuffer' = fetchedBuffer]_vars

C25_Witness ==
    /\ xpc = "create"
    /\ isUsingWebGPU(executionProviders)
    /\ Cardinality(Occurrences(fetchedBuffer)) = 1
    /\ Cardinality(Changed(fetchedBuffer, modelArrayBuffer)) = 1
    /\ \E n \in 1..(Len(fetchedBuffer) - 1) :
          /\ fetchedBuffer[n] \in {8, 16, 24}
          /\ fetchedBuffer[n + 1] = 1
          /\ modelArrayBuffer[n + 1] = 1

(***************************************************************************)
(* Properties of BytesIO, under SpecIo.                                    *)
(***************************************************************************)
\* The bytes of the write and writeBlob calls, one after the other.
RECURSIVE Written(_)
Written(ws) == IF ws = <<>> THEN <<>> ELSE Head(ws).bytes \o Written(Tail(ws))

\* C28: after any sequence of write and writeBlob calls on a BytesIO that
\* started empty, with no seek in between, getvalue() returns exactly the
\* concatenation of the written bytes, and so does read() after seek(0): as
\* many bytes as were written, and no padding.
C28_ValueIsWritten ==
    /\ iopc \in {"got", "read"} => gotValue = Written(writes)
    /\ iopc = "read" => readBytes = Written(writes)

====
